---- MODULE Spec2Model ----
(***************************************************************************)
(* The data aggregation and caching layer of registry.directory:           *)
(*   refreshAll   = fetchAllGitHubStats   (github-stats, src/unnamed/part_000) *)
(*   readSingle   = fetchGitHubStatsForUrl (same file)                      *)
(*   aggregateAll = fetchAllRegistryStats (src/unnamed/part_001)            *)
(*   buildIndex   = fetchAllRegistryItems (src/apps/web/lib/registry-items.ts) *)
(*                                                                         *)
(* One behaviour is one call of one of these operations.  An action is the *)
(* code that runs between two suspension points (awaits on the network).   *)
(*                                                                         *)
(* Strings are sequences of tokens: "github.com", "/", "foo", ".git" are   *)
(* each one token, so that the regular expressions of the source can be    *)
(* evaluated on them.  The empty sequence is the empty string, which the   *)
(* code treats like an absent optional field (both are falsy).             *)
(***************************************************************************)
EXTENDS Integers, Sequences, FiniteSets, TLC

VARIABLES
  op,          \* which exported function this behaviour calls
  pc,          \* position of the call: start, readingBlob, waiting, writingBlob, done
  registries,  \* the argument: DirectoryEntry[]
  githubUrl,   \* the argument of fetchGitHubStatsForUrl
  githubToken, \* process.env.GITHUB_TOKEN is set
  blobToken,   \* process.env.BLOB_READ_WRITE_TOKEN: "absent", "malformed", "valid"
  blob,        \* the object stored under github.json in the blob store
  liveStars,   \* the stargazers_count values api.github.com may answer with
  now,         \* Date.now(), milliseconds
  cache,       \* the local `cache` of fetchAllGitHubStats
  tasks,       \* the promises handed to Promise.allSettled, in list order
  result,      \* the value the call returned (wrapped), <<>> while running
  thrown,      \* the call ended with a rejection
  netlog,      \* history: the network requests issued, in order
  written,     \* history: the payloads handed to put(), in order
  cache0,      \* history: what readBlobCache returned
  checkedAt,   \* history: Date.now() when the fan-out consulted the cache
  readHow,     \* history: how the read of the blob store ended
  settled,     \* history: the manifest fetches, in the order they settled
  outcomes,    \* history: how each task of the fan-out went
  other,       \* a second call of fetchAllGitHubStats on the same blob store
  silent       \* the kinds of request that the upstream never answers

vars == <<op, pc, registries, githubUrl, githubToken, blobToken, blob,
          liveStars, now,
          cache, tasks, result, thrown, netlog, written, cache0, checkedAt,
          readHow, settled,
          outcomes, other, silent>>

(***************************************************************************)
(* Bounds of the model.                                                    *)
(***************************************************************************)
MaxEntries == 2   \* longest list of directory entries
MaxTicks == 1     \* milliseconds the clock may advance during one call
MaxUrlLen == 5    \* longest URL, in tokens, given to a parser on its own

(***************************************************************************)
(* Optional values: null is <<>>, a value v is <<v>>.                      *)
(***************************************************************************)
Null == <<>>
Some(v) == <<v>>
IsNull(x) == x = <<>>
Val(x) == x[1]

EmptyMap == [k \in {} |-> {}]
Put(m, k, v) == [x \in (DOMAIN m) \cup {k} |-> IF x = k THEN v ELSE m[x]]

RECURSIVE SeqToSet(_)
SeqToSet(s) == IF s = <<>> THEN {} ELSE {Head(s)} \cup SeqToSet(Tail(s))

(***************************************************************************)
(* Time.  An ISO timestamp is modelled as <<day, millisecond of the day>>. *)
(***************************************************************************)
DayMs == 24 * 60 * 60 * 1000
CACHE_TTL_MS == 24 * 60 * 60 * 1000
T0 == 3 * DayMs                       \* the clock when the call starts
toISOString(t) == <<t \div DayMs, t % DayMs>>
getTime(iso) == iso[1] * DayMs + iso[2]

\* variant: an entry is still fresh when its age is exactly the TTL
isFreshAt_Inclusive(entry, t) == t - getTime(entry.fetchedAt) <= CACHE_TTL_MS
isFreshAt(entry, t) == t - getTime(entry.fetchedAt) < CACHE_TTL_MS
\* variant: the comparison the wrong way round
isFresh_Inverted(entry) == now - getTime(entry.fetchedAt) >= CACHE_TTL_MS
isFresh(entry) == isFreshAt(entry, now)

(***************************************************************************)
(* The github_url values of the model.                                     *)
(***************************************************************************)
GH_FooBar == <<"https://", "github.com", "/", "foo", "/", "bar">>
GH_FooUi == <<"https://", "github.com", "/", "foo", "/", "ui", ".git">>
GH_NoRepo == <<"https://", "github.com", "/", "foo">>
NoGithubUrl == <<>>
GithubUrls == {NoGithubUrl, GH_NoRepo, GH_FooBar, GH_FooUi}

(***************************************************************************)
(* parseGitHubUrl: githubUrl.match(/github\.com\/([^/]+)\/([^/]+)/)        *)
(***************************************************************************)
\* last index of the maximal run of non-"/" tokens starting at i (i-1 if empty)
RunEnd(s, i) ==
  CHOOSE j \in (i - 1)..Len(s) :
    /\ \A k \in i..j : s[k] # "/"
    /\ j = Len(s) \/ s[j + 1] = "/"

MatchesAt(s, i) ==
  /\ i + 1 <= Len(s) /\ s[i] = "github.com" /\ s[i + 1] = "/"
  /\ LET e1 == RunEnd(s, i + 2)
     IN /\ e1 >= i + 2
        /\ e1 + 1 <= Len(s)
        /\ RunEnd(s, e1 + 2) >= e1 + 2

\* the match array of the leftmost match: <<>> (null) or <<<<group1, group2>>>>
RegExpMatch(s) ==
  LET starts == {i \in 1..Len(s) : MatchesAt(s, i)}
  IN IF starts = {} THEN Null
     ELSE LET i == CHOOSE x \in starts : \A y \in starts : x <= y
              e1 == RunEnd(s, i + 2)
              e2 == RunEnd(s, e1 + 2)
          IN Some(<<SubSeq(s, i + 2, e1), SubSeq(s, e1 + 2, e2)>>)

\* the matches of the URLs of the model, computed once
GitHubUrlMatches == [u \in GithubUrls |-> RegExpMatch(u)]

\* githubUrl.match(/github\.com\/([^/]+)\/([^/]+)/)
GitHubUrlMatch(s) ==
  IF s \in DOMAIN GitHubUrlMatches THEN GitHubUrlMatches[s] ELSE RegExpMatch(s)

\* str.replace(/\.git$/, "")
StripDotGit(str) ==
  IF Len(str) > 0 /\ str[Len(str)] = ".git" THEN SubSeq(str, 1, Len(str) - 1)
  ELSE str

parseGitHubUrl(s) ==
  LET m == GitHubUrlMatch(s)
  IN IF IsNull(m) \/ Val(m)[1] = <<>> \/ Val(m)[2] = <<>> THEN Null
     ELSE Some([owner |-> Val(m)[1], repo |-> StripDotGit(Val(m)[2])])

(***************************************************************************)
(* The data of the model: URLs, repositories, cached and live values.      *)
(***************************************************************************)
CachedUrls == {GH_FooBar, GH_FooUi}

\* the repositories api.github.com knows; any other request is answered 404
KnownRepos == {[owner |-> <<"foo">>, repo |-> <<"bar">>],
               [owner |-> <<"foo">>, repo |-> <<"ui">>]}
StableStars == {120}
LivePushedAt == "2024-01-01T00:00:00Z"
CachedStars == {100}
CachedLastCommit == "2023-06-01T00:00:00Z"
\* fetchedAt of the entries stored before the call: at T0 their age is 0,
\* TTL - 1 (fresh until the clock advances) or TTL (stale)
CachedFetchedAts == {toISOString(T0), toISOString(T0 - CACHE_TTL_MS + 1),
                     toISOString(T0 - CACHE_TTL_MS)}
CachedStats == [stars : CachedStars, lastCommit : {CachedLastCommit},
                fetchedAt : CachedFetchedAts]

\* type GitHubCache = Record<string, GitHubStats>; JSON null is a value of its own
EmptyCache == [isNull |-> FALSE, map |-> EmptyMap]
NullCache == [isNull |-> TRUE, map |-> EmptyMap]
InitialCaches ==
  {[isNull |-> FALSE, map |-> m] :
     m \in UNION {[K -> CachedStats] : K \in SUBSET CachedUrls}}

\* JSON.stringify(cache) and response.json(): an object is its set of members
JSONStringify(c) ==
  [isNull |-> c.isNull, members |-> {<<k, c.map[k]>> : k \in DOMAIN c.map}]
JSONParse(p) ==
  [isNull |-> p.isNull,
   map |-> [k \in {m[1] : m \in p.members} |->
              (CHOOSE m \in p.members : m[1] = k)[2]]]

DirectoryEntry(n, u, g, r) ==
  [name |-> n, url |-> u, github_url |-> g, registry_url |-> r]
SiteUrl == <<"https://", "foo.dev">>

RECURSIVE SeqsUpTo(_, _)
SeqsUpTo(S, n) ==
  IF n = 0 THEN {<<>>}
  ELSE LET shorter == SeqsUpTo(S, n - 1)
       IN shorter \cup {Append(q, x) : q \in {t \in shorter : Len(t) = n - 1}, x \in S}

(***************************************************************************)
(* fetchAllGitHubStats (refreshAll)                                        *)
(***************************************************************************)
\* a request: its kind, the cache key it is made for, its path, its cache policy
BlobReadRequest ==
  [kind |-> "blobRead", key |-> <<>>, path |-> <<"github.json">>,
   policy |-> "no-store"]
BlobWriteRequest ==
  [kind |-> "blobWrite", key |-> <<>>, path |-> <<"github.json">>,
   policy |-> "none"]
GitHubRequest(url, parsed) ==
  [kind |-> "github", key |-> url,
   path |-> <<"repos", "/">> \o parsed.owner \o <<"/">> \o parsed.repo,
   policy |-> "no-store"]

\* registries.filter((r) => r.github_url)
WithGithubUrl(rs) == SelectSeq(rs, LAMBDA r : r.github_url # <<>>)

\* variant: the public record is the cache entry itself
StripFetchedAt_Keep(stats) == stats
\* const { fetchedAt: _, ...publicStats } = stats
StripFetchedAt(stats) == [f \in (DOMAIN stats) \ {"fetchedAt"} |-> stats[f]]

\* the synchronous part of one task of the fan-out: up to its first await
StartTask(r, c) ==
  LET parsed == parseGitHubUrl(r.github_url)
      cacheKey == r.github_url
  IN IF IsNull(parsed)
       THEN [url |-> cacheKey, status |-> "fulfilled", value |-> Null,
             how |-> "unresolved"]
     ELSE IF c.isNull   \* cache[cacheKey] on null: TypeError inside the task
       THEN [url |-> cacheKey, status |-> "rejected", value |-> Null,
             how |-> "typeerror"]
     ELSE IF cacheKey \in DOMAIN c.map /\ isFresh(c.map[cacheKey])
       THEN [url |-> cacheKey, status |-> "fulfilled",
             value |-> Some([url |-> cacheKey, stats |-> c.map[cacheKey]]),
             how |-> "hit"]
     ELSE [url |-> cacheKey, status |-> "pending", value |-> Null,
           how |-> "requested"]

StartTasks(rs, c) == [i \in 1..Len(rs) |-> StartTask(rs[i], c)]

\* variant: entries that share a github_url share one request
RECURSIVE RequestsOf_OncePerUrl(_)
RequestsOf_OncePerUrl(started) ==
  IF started = <<>> THEN <<>>
  ELSE LET t == Head(started)
           rest == Tail(started)
       IN (IF t.status = "pending"
              /\ \A n \in 1..Len(rest) : rest[n].url # t.url
             THEN <<GitHubRequest(t.url, Val(parseGitHubUrl(t.url)))>>
             ELSE <<>>) \o RequestsOf_OncePerUrl(rest)
\* the requests fetchGitHubRepo issues for the tasks that did not return early
RECURSIVE RequestsOf(_)
RequestsOf(started) ==
  IF started = <<>> THEN <<>>
  ELSE LET t == Head(started)
       IN (IF t.status = "pending"
             THEN <<GitHubRequest(t.url, Val(parseGitHubUrl(t.url)))>>
             ELSE <<>>) \o RequestsOf(Tail(started))

TaskOf(t) == [url |-> t.url, status |-> t.status, value |-> t.value]

\* variant: Promise.race, which resolves with the first promise that settles
allSettled_Race(ts) == ts = <<>> \/ \E i \in 1..Len(ts) : ts[i].status # "pending"
\* Promise.allSettled resolves once every promise has settled ...
allSettled_Resolved(ts) == \A i \in 1..Len(ts) : ts[i].status # "pending"
\* variant: Promise.all, which rejects when one of its promises rejects
allSettled_RejectsLikeAll(ts) == \E i \in 1..Len(ts) : ts[i].status = "rejected"
\* ... and never rejects, whatever its promises did
allSettled_Rejects(ts) == FALSE

\* variant: one failed entry empties the whole record
RECURSIVE BuildStatsRecord_AllOrNothing(_)
BuildStatsRecord_AllOrNothing(ts) ==
  IF ts = <<>> THEN EmptyMap
  ELSE LET n == Len(ts)
           r == ts[n]
           acc == BuildStatsRecord_AllOrNothing(SubSeq(ts, 1, n - 1))
       IN IF \E i \in 1..n : ts[i].status # "fulfilled" \/ IsNull(ts[i].value)
            THEN EmptyMap
            ELSE Put(acc, Val(r.value).url, StripFetchedAt(Val(r.value).stats))

\* variant: a fulfilled result without stats still gets a key
RECURSIVE BuildStatsRecord_KeyForNull(_)
BuildStatsRecord_KeyForNull(ts) ==
  IF ts = <<>> THEN EmptyMap
  ELSE LET n == Len(ts)
           r == ts[n]
           acc == BuildStatsRecord_KeyForNull(SubSeq(ts, 1, n - 1))
       IN IF r.status # "fulfilled" THEN acc
          ELSE IF IsNull(r.value) THEN Put(acc, r.url, EmptyMap)
          ELSE Put(acc, Val(r.value).url, StripFetchedAt(Val(r.value).stats))

\* variant: a key already in statsRecord is not assigned again
RECURSIVE BuildStatsRecord_FirstWins(_)
BuildStatsRecord_FirstWins(ts) ==
  IF ts = <<>> THEN EmptyMap
  ELSE LET n == Len(ts)
           r == ts[n]
           acc == BuildStatsRecord_FirstWins(SubSeq(ts, 1, n - 1))
       IN IF r.status = "fulfilled" /\ ~IsNull(r.value)
               /\ Val(r.value).url \notin DOMAIN acc
            THEN Put(acc, Val(r.value).url, StripFetchedAt(Val(r.value).stats))
            ELSE acc

\* the loop that builds statsRecord from the settled results, in list order
RECURSIVE BuildStatsRecord(_)
BuildStatsRecord(ts) ==
  IF ts = <<>> THEN EmptyMap
  ELSE LET n == Len(ts)
           r == ts[n]
           acc == BuildStatsRecord(SubSeq(ts, 1, n - 1))
       IN IF r.status = "fulfilled" /\ ~IsNull(r.value)
            THEN Put(acc, Val(r.value).url, StripFetchedAt(Val(r.value).stats))
            ELSE acc

Pending(ts) == {i \in 1..Len(ts) : ts[i].status = "pending"}

\* variant: writeBlobCache calls put() also when there is no blob token
Proceed_WritesWithoutToken(c, ts, log) ==
  /\ cache' = c
  /\ tasks' = ts
  /\ IF ~allSettled_Resolved(ts)
       THEN /\ pc' = "waiting"
            /\ netlog' = log
            /\ UNCHANGED <<written, result, thrown>>
     ELSE IF allSettled_Rejects(ts)
       THEN /\ pc' = "done"
            /\ thrown' = TRUE
            /\ netlog' = log
            /\ UNCHANGED <<written, result>>
     ELSE /\ pc' = "writingBlob"
          /\ netlog' = Append(log, BlobWriteRequest)
          /\ written' = Append(written, JSONStringify(c))
          /\ UNCHANGED <<result, thrown>>
\* the code from `await Promise.allSettled(...)` to the next suspension point,
\* with the cache c, the tasks ts and the requests log issued so far
Proceed(c, ts, log) ==
  /\ cache' = c
  /\ tasks' = ts
  /\ IF ~allSettled_Resolved(ts)
       THEN /\ pc' = "waiting"
            /\ netlog' = log
            /\ UNCHANGED <<written, result, thrown>>
     ELSE IF allSettled_Rejects(ts)
       THEN /\ pc' = "done"
            /\ thrown' = TRUE
            /\ netlog' = log
            /\ UNCHANGED <<written, result>>
     ELSE IF blobToken = "absent"     \* writeBlobCache returns at once
       THEN /\ pc' = "done"
            /\ result' = Some(BuildStatsRecord(ts))
            /\ netlog' = log
            /\ UNCHANGED <<written, thrown>>
     ELSE /\ pc' = "writingBlob"      \* put(BLOB_FILENAME, JSON.stringify(cache))
          /\ netlog' = Append(log, BlobWriteRequest)
          /\ written' = Append(written, JSONStringify(c))
          /\ UNCHANGED <<result, thrown>>

\* the code after `const cache = await readBlobCache()`: the fan-out
\* how tells how readBlobCache got c
FanOut(c, log, how) ==
  LET started == StartTasks(WithGithubUrl(registries), c)
      ts == [i \in 1..Len(started) |-> TaskOf(started[i])]
  IN /\ cache0' = c
     /\ checkedAt' = now
     /\ readHow' = how
     /\ UNCHANGED settled
     /\ outcomes' = [i \in 1..Len(started) |-> started[i].how]
     /\ Proceed(c, ts, log \o RequestsOf(started))

\* the call up to its first suspension point; hasToken is !!githubToken
StartWith(hasToken) ==
  /\ op = "refreshAll" /\ pc = "start"
  /\ IF ~hasToken
       THEN /\ pc' = "done"
            /\ result' = Some(EmptyMap)
            /\ UNCHANGED <<cache, tasks, thrown, netlog, written, cache0,
                           checkedAt, readHow, settled, outcomes>>
     ELSE IF blobToken = "valid"     \* readBlobCache: fetch(blobUrl)
       THEN /\ pc' = "readingBlob"
            /\ netlog' = Append(netlog, BlobReadRequest)
            /\ UNCHANGED <<cache, tasks, result, thrown, written, cache0,
                           checkedAt, readHow, settled, outcomes>>
     \* readBlobCache returned {} without a request
     ELSE FanOut(EmptyCache, netlog, "skipped")
  /\ UNCHANGED <<silent, other, op, registries, githubUrl, githubToken, blobToken, blob,
                 liveStars, now>>

\* variant: the call without its guard on GITHUB_TOKEN
fetchAllGitHubStats_Start_Unguarded == StartWith(TRUE)
fetchAllGitHubStats_Start == StartWith(githubToken)

\* variant: the body of the response is not used
readBlobCache_Result_Discards(outcome) == EmptyCache
\* variant: a failed read yields no cache object at all
readBlobCache_Result_FailsToNull(outcome) ==
  IF outcome = "ok" THEN JSONParse(Val(blob)) ELSE NullCache
\* what readBlobCache returns for each way its fetch can end
readBlobCache_Result(outcome) ==
  IF outcome = "ok" THEN JSONParse(Val(blob)) ELSE EmptyCache

\* "ok": 2xx with the stored JSON; "notok": any other status (also: no object
\* stored); "throw": network error, or a body that is not JSON
\* the fetch has no timeout: without an answer it never settles
BlobReadOutcomes ==
  IF "blobRead" \in silent THEN {}
  ELSE (IF IsNull(blob) THEN {} ELSE {"ok"}) \cup {"notok", "throw"}

readBlobCache_Done ==
  /\ op = "refreshAll" /\ pc = "readingBlob"
  /\ \E outcome \in BlobReadOutcomes :
       FanOut(readBlobCache_Result(outcome), netlog, outcome)
  /\ UNCHANGED <<silent, other, op, registries, githubUrl, githubToken, blobToken, blob,
                 liveStars, now>>

\* what fetchGitHubRepo returns: GitHubStats, or null
fetchGitHubRepo_Result(outcome, s) ==
  IF outcome = "ok"
    THEN Some([stars |-> s, lastCommit |-> LivePushedAt,
               fetchedAt |-> toISOString(now)])
    ELSE Null

\* "ok": 2xx with {stargazers_count, pushed_at}; "notok": another status;
\* "throw": network error, or a body that is not JSON
\* the fetch has no timeout: without an answer it never settles
GitHubOutcomes(url) ==
  IF "github" \in silent THEN {}
  ELSE (IF Val(parseGitHubUrl(url)) \in KnownRepos THEN {"ok"} ELSE {})
         \cup {"notok", "throw"}

\* the continuation of task i after `await fetchGitHubRepo(...)`
TaskAfterFetch(t, stats) ==
  [url |-> t.url, status |-> "fulfilled",
   value |-> IF IsNull(stats) THEN Null
             ELSE Some([url |-> t.url, stats |-> Val(stats)])]

\* variant: cache[cacheKey] = stats whatever stats is; a null entry is lost
CacheAfterFetch_AlwaysAssigns(c, t, stats) ==
  IF IsNull(stats)
    THEN [c EXCEPT !.map = [k \in (DOMAIN c.map) \ {t.url} |-> c.map[k]]]
    ELSE [c EXCEPT !.map = Put(c.map, t.url, Val(stats))]
\* variant: the cache is rebuilt from what this pass fetched
CacheAfterFetch_Rebuilds(c, t, stats) ==
  IF IsNull(stats) THEN c
  ELSE [c EXCEPT !.map = Put(EmptyMap, t.url, Val(stats))]
\* variant: the fetched stats are returned but not stored
CacheAfterFetch_NotStored(c, t, stats) == c
CacheAfterFetch(c, t, stats) ==
  IF IsNull(stats) THEN c
  ELSE [c EXCEPT !.map = Put(c.map, t.url, Val(stats))]

\* variant: a request that failed is issued once more before the task gives up
fetchGitHubRepo_Done_RetriesOnce ==
  /\ op = "refreshAll" /\ pc = "waiting"
  /\ \E i \in Pending(tasks) : \E outcome \in GitHubOutcomes(tasks[i].url) :
       \E s \in liveStars :
         LET stats == fetchGitHubRepo_Result(outcome, s)
         IN /\ outcome # "ok" => s = CHOOSE x \in liveStars : TRUE
            /\ IF outcome # "ok" /\ outcomes[i] = "requested"
                 THEN /\ outcomes' = [outcomes EXCEPT ![i] = "retried"]
                      /\ Proceed(cache, tasks,
                                 Append(netlog,
                                        GitHubRequest(tasks[i].url,
                                                      Val(parseGitHubUrl(tasks[i].url)))))
                 ELSE /\ outcomes' = [outcomes EXCEPT ![i] =
                                        IF outcome = "ok" THEN "ok" ELSE "failed"]
                      /\ Proceed(CacheAfterFetch(cache, tasks[i], stats),
                                 [tasks EXCEPT ![i] = TaskAfterFetch(tasks[i], stats)],
                                 netlog)
  /\ UNCHANGED <<silent, other, op, registries, githubUrl, githubToken, blobToken, blob,
                 liveStars, now,
                 cache0, checkedAt, readHow, settled>>
fetchGitHubRepo_Done ==
  /\ op = "refreshAll" /\ pc = "waiting"
  /\ \E i \in Pending(tasks) : \E outcome \in GitHubOutcomes(tasks[i].url) :
       \E s \in liveStars :
         LET stats == fetchGitHubRepo_Result(outcome, s)
         IN /\ outcome # "ok" => s = CHOOSE x \in liveStars : TRUE
            /\ outcomes' = [outcomes EXCEPT ![i] =
                              IF outcome = "ok" THEN "ok" ELSE "failed"]
            /\ Proceed(CacheAfterFetch(cache, tasks[i], stats),
                       [tasks EXCEPT ![i] = TaskAfterFetch(tasks[i], stats)],
                       netlog)
  /\ UNCHANGED <<silent, other, op, registries, githubUrl, githubToken, blobToken, blob,
                 liveStars, now,
                 cache0, checkedAt, readHow, settled>>

\* put() with a token that is not a Vercel read-write token is refused
\* put() is called without a timeout or an abort signal
BlobWriteOutcomes ==
  IF "blobWrite" \in silent THEN {}
  ELSE (IF blobToken = "valid" THEN {"ok"} ELSE {}) \cup {"throw"}

\* variant: the store merges the members of the payload into the stored object
put_Merges(stored, payload) ==
  IF IsNull(stored) \/ Val(stored).isNull \/ payload.isNull THEN Some(payload)
  ELSE Some([isNull |-> FALSE,
             members |-> payload.members \cup
                           {m \in Val(stored).members :
                              \A p \in payload.members : p[1] # m[1]}])
\* put(BLOB_FILENAME, body, {addRandomSuffix: false, allowOverwrite: true}):
\* the object stored under the name becomes the body
put(stored, payload) == Some(payload)

\* variant: writeBlobCache without its try/catch
writeBlobCache_Throws_Propagates(outcome) == outcome = "throw"
\* whether writeBlobCache rejects: the catch around put() logs and returns
writeBlobCache_Throws(outcome) == FALSE

writeBlobCache_Done ==
  /\ op = "refreshAll" /\ pc = "writingBlob"
  /\ \E outcome \in BlobWriteOutcomes :
       /\ blob' = IF outcome = "ok" THEN put(blob, written[Len(written)]) ELSE blob
       /\ IF writeBlobCache_Throws(outcome)
            THEN thrown' = TRUE /\ UNCHANGED result
            ELSE result' = Some(BuildStatsRecord(tasks)) /\ UNCHANGED thrown
  /\ pc' = "done"
  /\ UNCHANGED <<silent, other, op, registries, githubUrl, githubToken, blobToken, liveStars, now,
                 cache,
                 tasks, netlog, written, cache0, checkedAt,
                 readHow, settled, outcomes>>

(***************************************************************************)
(* fetchGitHubStatsForUrl (readSingle)                                     *)
(***************************************************************************)
BlobRevalidatingRead ==
  [kind |-> "blobRead", key |-> <<>>, path |-> <<"github.json">>,
   policy |-> "revalidate"]

fetchGitHubStatsForUrl_Start ==
  /\ op = "readSingle" /\ pc = "start"
  /\ IF blobToken = "valid"
       THEN /\ pc' = "readingBlob"
            /\ netlog' = Append(netlog, BlobRevalidatingRead)
            /\ UNCHANGED <<result, readHow>>
       ELSE /\ pc' = "done"          \* no token, or no store id in it
            /\ result' = Some(Null)
            /\ readHow' = "skipped"
            /\ UNCHANGED netlog
  /\ UNCHANGED <<silent, other, op, registries, githubUrl, githubToken, blobToken, blob,
                 liveStars, now,
                 cache, tasks, thrown, written, cache0, checkedAt,
                 settled, outcomes>>

\* variant: an entry older than the TTL is not served
fetchGitHubStatsForUrl_Result_FreshOnly(outcome, url) ==
  IF outcome # "ok" THEN Null
  ELSE LET c == JSONParse(Val(blob))
       IN IF c.isNull THEN Null
          ELSE IF url \notin DOMAIN c.map THEN Null
          ELSE IF ~isFresh(c.map[url]) THEN Null
          ELSE Some(StripFetchedAt(c.map[url]))
\* variant: a URL that is not in the cache gets a default value
fetchGitHubStatsForUrl_Result_DefaultForMissing(outcome, url) ==
  IF outcome # "ok" THEN Null
  ELSE LET c == JSONParse(Val(blob))
       IN IF c.isNull \/ url \notin DOMAIN c.map
            THEN Some([stars |-> 0, lastCommit |-> ""])
            ELSE Some(StripFetchedAt(c.map[url]))
\* the value returned once the read has ended; every exception is caught
fetchGitHubStatsForUrl_Result(outcome, url) ==
  IF outcome # "ok" THEN Null
  ELSE LET c == JSONParse(Val(blob))
       IN IF c.isNull THEN Null           \* cache[githubUrl] throws, caught
          ELSE IF url \notin DOMAIN c.map THEN Null
          ELSE Some(StripFetchedAt(c.map[url]))

fetchGitHubStatsForUrl_Done ==
  /\ op = "readSingle" /\ pc = "readingBlob"
  /\ \E outcome \in BlobReadOutcomes :
       /\ result' = Some(fetchGitHubStatsForUrl_Result(outcome, githubUrl))
       /\ readHow' = outcome
  /\ pc' = "done"
  /\ UNCHANGED <<silent, other, op, registries, githubUrl, githubToken, blobToken, blob,
                 liveStars, now,
                 cache, tasks, thrown, netlog, written, cache0, checkedAt,
                 settled,
                 outcomes>>

(***************************************************************************)
(* Registry manifests: what the registry endpoints answer.                 *)
(***************************************************************************)
RegistryItem(n, c, d, cs, f) ==
  [name |-> n, type |-> "registry:ui", category |-> c, description |-> d,
   categories |-> cs, renderable |-> f]
Button == RegistryItem("button", "ui", Some("A button"), Some(<<"ui">>), TRUE)
ButtonAgain == RegistryItem("button", "ui", Null, Null, TRUE)
Input == RegistryItem("input", "forms", Null, Null, TRUE)
Font == RegistryItem("font", "forms", Null, Null, FALSE)
\* a Registry document: `items` may be missing
Registry(has, its) == [hasItems |-> has, items |-> its]
\* the third has its larger group second; the fourth has more than five items
\* and two groups of the same size
Manifests == {Registry(FALSE, <<>>), Registry(TRUE, <<>>),
              Registry(TRUE, <<Button, Input, Font>>),
              Registry(TRUE, <<Input, Font, Button, ButtonAgain, Input, Button>>)}

\* "ok": 2xx with a Registry document; "notok": another status; "throw":
\* network error or timeout; "badjson": 2xx with a body that is not JSON
\* registryFetch is called with a timeout (5000 or 10000 ms): without an
\* answer it throws
ManifestOutcomes ==
  IF "manifest" \in silent THEN {"throw"}
  ELSE {"ok", "notok", "throw", "badjson"}

ManifestRequest(r, url, ms) ==
  [kind |-> "manifest", key |-> r.url, path |-> url, policy |-> "revalidate",
   timeout |-> ms]

(***************************************************************************)
(* fetchAllRegistryStats (aggregateAll)                                    *)
(***************************************************************************)
\* registry.url.replace(/\/$/, "")
StripTrailingSlash(str) ==
  IF Len(str) > 0 /\ str[Len(str)] = "/" THEN SubSeq(str, 1, Len(str) - 1)
  ELSE str

\* variant: the site URL is preferred to an explicit registry_url
getRegistryJsonUrl_UrlFirst(registry) ==
  IF registry.url # <<>>
    THEN Some(StripTrailingSlash(registry.url) \o <<"/r/registry.json">>)
  ELSE IF registry.registry_url # <<>> THEN Some(registry.registry_url)
  ELSE Null
getRegistryJsonUrl(registry) ==
  IF registry.registry_url # <<>> THEN Some(registry.registry_url)
  ELSE IF registry.url # <<>>
    THEN Some(StripTrailingSlash(registry.url) \o <<"/r/registry.json">>)
  ELSE Null

\* groupItemsByCategory: the category slugs in first-seen order
RECURSIVE CategorySlugs(_)
CategorySlugs(items) ==
  IF items = <<>> THEN <<>>
  ELSE LET n == Len(items)
           before == CategorySlugs(SubSeq(items, 1, n - 1))
       IN IF items[n].category \in SeqToSet(before) THEN before
          ELSE Append(before, items[n].category)

groupItemsByCategory(items) ==
  LET slugs == CategorySlugs(items)
  IN [i \in 1..Len(slugs) |->
        <<slugs[i], SelectSeq(items, LAMBDA it : it.category = slugs[i])>>]

\* variant: a sort that puts an element before those of equal count
RECURSIVE SortByCountDesc_Unstable(_)
SortByCountDesc_Unstable(cats) ==
  IF cats = <<>> THEN <<>>
  ELSE LET n == Len(cats)
           sorted == SortByCountDesc_Unstable(SubSeq(cats, 1, n - 1))
           x == cats[n]
           pos == Cardinality({i \in 1..Len(sorted) : sorted[i].count > x.count})
       IN SubSeq(sorted, 1, pos) \o <<x>> \o SubSeq(sorted, pos + 1, Len(sorted))

\* Array.prototype.sort((a, b) => b.count - a.count): stable, descending
RECURSIVE SortByCountDesc(_)
SortByCountDesc(cats) ==
  IF cats = <<>> THEN <<>>
  ELSE LET n == Len(cats)
           sorted == SortByCountDesc(SubSeq(cats, 1, n - 1))
           x == cats[n]
           \* x goes after every element whose count is not smaller
           pos == Cardinality({i \in 1..Len(sorted) : sorted[i].count >= x.count})
       IN SubSeq(sorted, 1, pos) \o <<x>> \o SubSeq(sorted, pos + 1, Len(sorted))

TOP_ITEMS == 5

\* variant: topItems names every item of the manifest
fetchStatsForRegistry_Result_NoSlice(outcome, data) ==
  IF outcome # "ok" THEN Null
  ELSE IF ~data.hasItems \/ Len(data.items) = 0 THEN Null
  ELSE LET grouped == groupItemsByCategory(data.items)
           categories ==
             SortByCountDesc([i \in 1..Len(grouped) |->
                                [slug |-> grouped[i][1], count |-> Len(grouped[i][2])]])
       IN Some([totalItems |-> Len(data.items), categories |-> categories,
                topItems |-> [i \in 1..Len(data.items) |-> data.items[i].name]])
\* variant: a manifest without items yields stats with a total of zero
fetchStatsForRegistry_Result_EmptyIsZero(outcome, data) ==
  IF outcome # "ok" THEN Null
  ELSE Some([totalItems |-> Len(data.items), categories |-> <<>>, topItems |-> <<>>])
\* fetchStatsForRegistry, from the response on: RegistryStats, or null
fetchStatsForRegistry_Result(outcome, data) ==
  IF outcome # "ok" THEN Null
  ELSE IF ~data.hasItems \/ Len(data.items) = 0 THEN Null
  ELSE LET grouped == groupItemsByCategory(data.items)
           categories ==
             SortByCountDesc([i \in 1..Len(grouped) |->
                                [slug |-> grouped[i][1], count |-> Len(grouped[i][2])]])
           top == SubSeq(data.items, 1,
                         IF Len(data.items) < TOP_ITEMS THEN Len(data.items)
                         ELSE TOP_ITEMS)
       IN Some([totalItems |-> Len(data.items), categories |-> categories,
                topItems |-> [i \in 1..Len(top) |-> top[i].name]])

\* one task of registries.map(...), up to its first await
StartStatsTask(r) ==
  IF IsNull(getRegistryJsonUrl(r))
    THEN [url |-> r.url, status |-> "fulfilled",
          value |-> Some([url |-> r.url, stats |-> Null]), how |-> "nourl"]
    ELSE [url |-> r.url, status |-> "pending", value |-> Null, how |-> "requested"]

RECURSIVE StatsRequestsOf(_)
StatsRequestsOf(rs) ==
  IF rs = <<>> THEN <<>>
  ELSE (IF IsNull(getRegistryJsonUrl(Head(rs))) THEN <<>>
        ELSE <<ManifestRequest(Head(rs), Val(getRegistryJsonUrl(Head(rs))), 5000)>>)
         \o StatsRequestsOf(Tail(rs))

\* variant: an entry without stats gets a key holding null
RECURSIVE BuildRegistryStatsRecord_KeyForNull(_)
BuildRegistryStatsRecord_KeyForNull(ts) ==
  IF ts = <<>> THEN EmptyMap
  ELSE LET n == Len(ts)
           r == ts[n]
           acc == BuildRegistryStatsRecord_KeyForNull(SubSeq(ts, 1, n - 1))
       IN IF r.status # "fulfilled" THEN acc
          ELSE IF IsNull(Val(r.value).stats) THEN Put(acc, Val(r.value).url, Null)
          ELSE Put(acc, Val(r.value).url, Val(Val(r.value).stats))
\* statsRecord built from the promises ts taken in the given order
RECURSIVE StatsInOrder(_, _)
StatsInOrder(ts, order) ==
  IF order = <<>> THEN EmptyMap
  ELSE LET n == Len(order)
           r == ts[order[n]]
           acc == StatsInOrder(ts, SubSeq(order, 1, n - 1))
       IN IF r.status = "fulfilled" /\ ~IsNull(Val(r.value).stats)
            THEN Put(acc, Val(r.value).url, Val(Val(r.value).stats))
            ELSE acc
\* variant: the record is filled in the order the promises settled
BuildRegistryStatsRecord_InSettlementOrder(ts) == StatsInOrder(ts, settled')
\* the loop that builds statsRecord from the settled results, in list order
RECURSIVE BuildRegistryStatsRecord(_)
BuildRegistryStatsRecord(ts) ==
  IF ts = <<>> THEN EmptyMap
  ELSE LET n == Len(ts)
           r == ts[n]
           acc == BuildRegistryStatsRecord(SubSeq(ts, 1, n - 1))
       IN IF r.status = "fulfilled" /\ ~IsNull(Val(r.value).stats)
            THEN Put(acc, Val(r.value).url, Val(Val(r.value).stats))
            ELSE acc

\* the code from `await Promise.allSettled(...)` to the return
ProceedStats(ts, log) ==
  /\ tasks' = ts
  /\ netlog' = log
  /\ IF ~allSettled_Resolved(ts)
       THEN pc' = "waiting" /\ UNCHANGED <<result, thrown>>
     ELSE IF allSettled_Rejects(ts)
       THEN pc' = "done" /\ thrown' = TRUE /\ UNCHANGED result
     ELSE /\ pc' = "done"
          /\ result' = Some(BuildRegistryStatsRecord(ts))
          /\ UNCHANGED thrown

fetchAllRegistryStats_Start ==
  /\ op = "aggregateAll" /\ pc = "start"
  /\ LET started == [i \in 1..Len(registries) |-> StartStatsTask(registries[i])]
     IN /\ outcomes' = [i \in 1..Len(started) |-> started[i].how]
        /\ settled' = <<>>
        /\ ProceedStats([i \in 1..Len(started) |-> TaskOf(started[i])],
                        netlog \o StatsRequestsOf(registries))
  /\ UNCHANGED <<silent, other, op, registries, githubUrl, githubToken, blobToken, blob,
                 liveStars, now, cache, written, cache0, checkedAt,
                 readHow>>

fetchStatsForRegistry_Done ==
  /\ op = "aggregateAll" /\ pc = "waiting"
  /\ \E i \in Pending(tasks) : \E outcome \in ManifestOutcomes :
       \E data \in Manifests :
         /\ outcome # "ok" => data = Registry(FALSE, <<>>)
         /\ outcomes' = [outcomes EXCEPT ![i] = <<outcome, data>>]
         /\ settled' = Append(settled, i)
         /\ ProceedStats(
              [tasks EXCEPT ![i] =
                 [url |-> tasks[i].url, status |-> "fulfilled",
                  value |-> Some([url |-> tasks[i].url,
                                  stats |-> fetchStatsForRegistry_Result(outcome, data)])]],
              netlog)
  /\ UNCHANGED <<silent, other, op, registries, githubUrl, githubToken, blobToken, blob,
                 liveStars, now, cache, written, cache0, checkedAt,
                 readHow>>

(***************************************************************************)
(* fetchAllRegistryItems (buildIndex)                                      *)
(***************************************************************************)
\* parseGitHubOwnerRepo of registry-items.ts: the checks come after the strip
parseGitHubOwnerRepo(s) ==
  LET m == GitHubUrlMatch(s)
  IN IF IsNull(m) THEN Null
     ELSE LET owner == Val(m)[1]
              repo == StripDotGit(Val(m)[2])
          IN IF owner = <<>> \/ repo = <<>> THEN Null
             ELSE Some([owner |-> owner, repo |-> repo])

\* getRegistryJsonUrl of fetch-utils
fetchUtils_getRegistryJsonUrl(registry) ==
  IF registry.registry_url # <<>> THEN Some(registry.registry_url)
  ELSE IF registry.url # <<>>
    THEN Some(StripTrailingSlash(registry.url) \o <<"/r/registry.json">>)
  ELSE Null

\* hasOnlyRenderableFiles(item.files) of file-utils
hasOnlyRenderableFiles(item) == item.renderable

\* variant: the optional fields are copied without their defaults
IndexedItem_NoDefaults(item, registry, parsed) ==
  [name |-> item.name, type |-> item.type,
   description |-> IF IsNull(item.description) THEN "undefined" ELSE Val(item.description),
   categories |-> IF IsNull(item.categories) THEN <<"undefined">> ELSE Val(item.categories),
   registry |-> [name |-> registry.name, owner |-> parsed.owner, repo |-> parsed.repo]]
IndexedItem(item, registry, parsed) ==
  [name |-> item.name, type |-> item.type,
   description |-> IF IsNull(item.description) THEN "" ELSE Val(item.description),
   categories |-> IF IsNull(item.categories) THEN <<>> ELSE Val(item.categories),
   registry |-> [name |-> registry.name, owner |-> parsed.owner, repo |-> parsed.repo]]

\* whether fetchItemsForRegistry reaches its registryFetch
ItemsRequested(r) ==
  /\ ~IsNull(fetchUtils_getRegistryJsonUrl(r))
  /\ r.github_url # <<>>
  /\ ~IsNull(parseGitHubOwnerRepo(r.github_url))

\* variant: fetchItemsForRegistry with a try/catch that returns []
fetchItemsForRegistry_Result_Caught(r, outcome, data) ==
  IF outcome # "ok" \/ ~data.hasItems \/ Len(data.items) = 0
    THEN [status |-> "fulfilled", value |-> <<>>]
  ELSE LET kept == SelectSeq(data.items, hasOnlyRenderableFiles)
           parsed == Val(parseGitHubOwnerRepo(r.github_url))
       IN [status |-> "fulfilled",
           value |-> [i \in 1..Len(kept) |-> IndexedItem(kept[i], r, parsed)]]
\* fetchItemsForRegistry, from the response on: the promise's state and value
fetchItemsForRegistry_Result(r, outcome, data) ==
  IF outcome \in {"throw", "badjson"}
    THEN [status |-> "rejected", value |-> <<>>]
  ELSE IF outcome = "notok" \/ ~data.hasItems \/ Len(data.items) = 0
    THEN [status |-> "fulfilled", value |-> <<>>]
  ELSE LET kept == SelectSeq(data.items, hasOnlyRenderableFiles)
           parsed == Val(parseGitHubOwnerRepo(r.github_url))
       IN [status |-> "fulfilled",
           value |-> [i \in 1..Len(kept) |-> IndexedItem(kept[i], r, parsed)]]

StartItemsTask(r) ==
  IF ItemsRequested(r)
    THEN [url |-> r.url, status |-> "pending", value |-> <<>>, how |-> "requested"]
    ELSE [url |-> r.url, status |-> "fulfilled", value |-> <<>>, how |-> "skipped"]

RECURSIVE ItemsRequestsOf(_)
ItemsRequestsOf(rs) ==
  IF rs = <<>> THEN <<>>
  ELSE (IF ItemsRequested(Head(rs))
          THEN <<ManifestRequest(Head(rs),
                                 Val(fetchUtils_getRegistryJsonUrl(Head(rs))), 10000)>>
          ELSE <<>>) \o ItemsRequestsOf(Tail(rs))

\* the values of the fulfilled promises among ts, taken in the given order
RECURSIVE ValuesInOrder(_, _)
ValuesInOrder(ts, order) ==
  IF order = <<>> THEN <<>>
  ELSE (IF ts[Head(order)].status = "fulfilled" THEN ts[Head(order)].value ELSE <<>>)
         \o ValuesInOrder(ts, Tail(order))
\* variant: a rejected result discards the items collected before it
RECURSIVE AllItems_RejectedDiscards(_)
AllItems_RejectedDiscards(ts) ==
  IF ts = <<>> THEN <<>>
  ELSE LET n == Len(ts)
       IN IF ts[n].status = "fulfilled"
            THEN AllItems_RejectedDiscards(SubSeq(ts, 1, n - 1)) \o ts[n].value
            ELSE <<>>
\* variant: the results are concatenated in the order the promises settled
AllItems_InSettlementOrder(ts) == ValuesInOrder(ts, settled')
\* allItems.push(...result.value) for the fulfilled results, in list order
RECURSIVE AllItems(_)
AllItems(ts) ==
  IF ts = <<>> THEN <<>>
  ELSE (IF Head(ts).status = "fulfilled" THEN Head(ts).value ELSE <<>>)
         \o AllItems(Tail(ts))

ItemKey(item) ==
  item.registry.owner \o <<"/">> \o item.registry.repo \o <<"/", item.name>>

\* variant: only a repetition of the item just before is dropped
RECURSIVE Deduplicate_AdjacentOnly(_)
Deduplicate_AdjacentOnly(items) ==
  IF items = <<>> THEN <<>>
  ELSE LET n == Len(items)
           before == SubSeq(items, 1, n - 1)
       IN IF n > 1 /\ ItemKey(items[n - 1]) = ItemKey(items[n])
            THEN Deduplicate_AdjacentOnly(before)
            ELSE Append(Deduplicate_AdjacentOnly(before), items[n])

\* allItems.filter(...) with the `seen` set: the first occurrence is kept
RECURSIVE Deduplicate(_)
Deduplicate(items) ==
  IF items = <<>> THEN <<>>
  ELSE LET n == Len(items)
           before == SubSeq(items, 1, n - 1)
       IN IF \E i \in 1..(n - 1) : ItemKey(items[i]) = ItemKey(items[n])
            THEN Deduplicate(before)
            ELSE Append(Deduplicate(before), items[n])

ProceedItems(ts, log) ==
  /\ tasks' = ts
  /\ netlog' = log
  /\ IF ~allSettled_Resolved(ts)
       THEN pc' = "waiting" /\ UNCHANGED <<result, thrown>>
     ELSE IF allSettled_Rejects(ts)
       THEN pc' = "done" /\ thrown' = TRUE /\ UNCHANGED result
     ELSE /\ pc' = "done"
          /\ result' = Some(Deduplicate(AllItems(ts)))
          /\ UNCHANGED thrown

fetchAllRegistryItems_Start ==
  /\ op = "buildIndex" /\ pc = "start"
  /\ LET started == [i \in 1..Len(registries) |-> StartItemsTask(registries[i])]
     IN /\ outcomes' = [i \in 1..Len(started) |-> started[i].how]
        /\ settled' = <<>>
        /\ ProceedItems([i \in 1..Len(started) |-> TaskOf(started[i])],
                        netlog \o ItemsRequestsOf(registries))
  /\ UNCHANGED <<silent, other, op, registries, githubUrl, githubToken, blobToken, blob,
                 liveStars, now, cache, written, cache0, checkedAt,
                 readHow>>

fetchItemsForRegistry_Done ==
  /\ op = "buildIndex" /\ pc = "waiting"
  /\ \E i \in Pending(tasks) : \E outcome \in ManifestOutcomes :
       \E data \in Manifests :
         LET res == fetchItemsForRegistry_Result(registries[i], outcome, data)
         IN /\ outcome # "ok" => data = Registry(FALSE, <<>>)
            /\ outcomes' = [outcomes EXCEPT ![i] = <<outcome, data>>]
            /\ settled' = Append(settled, i)
            /\ ProceedItems(
                 [tasks EXCEPT ![i] = [url |-> tasks[i].url,
                                       status |-> res.status,
                                       value |-> res.value]],
                 netlog)
  /\ UNCHANGED <<silent, other, op, registries, githubUrl, githubToken, blobToken, blob,
                 liveStars, now, cache, written, cache0, checkedAt,
                 readHow>>

\* the clock advances while the call waits for the network; only the GitHub
\* operations read it
Tick ==
  /\ op \in {"refreshAll", "readSingle"}
  /\ pc \in {"readingBlob", "waiting", "writingBlob"}
  /\ now < T0 + MaxTicks
  /\ now' = now + 1
  /\ UNCHANGED <<silent, other, op, pc, registries, githubUrl, githubToken, blobToken, blob,
                 liveStars, cache, tasks, result, thrown, netlog, written, cache0,
                 checkedAt, readHow, settled, outcomes>>

(***************************************************************************)
(* The calls the model makes.                                              *)
(***************************************************************************)
InitialBlobs == {Null, Some(JSONStringify(NullCache))}
                  \cup {Some(JSONStringify(c)) : c \in InitialCaches}

GitHubEntries == {DirectoryEntry("A", SiteUrl, g, <<>>) : g \in GithubUrls}
ExplicitManifest == <<"https://", "cdn.foo.dev", "/", "registry.json">>
StatsEntries ==
  {DirectoryEntry("A", u, <<>>, r) :
     u \in {<<>>, SiteUrl, SiteUrl \o <<"/">>}, r \in {<<>>, ExplicitManifest}}
ItemsEntries ==
  {DirectoryEntry(n, u, g, <<>>) :
     n \in {"A", "B"}, u \in {<<>>, SiteUrl}, g \in GithubUrls}

\* the second call, when there is none
NoSecondPass ==
  [pc |-> "idle", cache |-> EmptyCache, tasks |-> <<>>, written |-> Null,
   overwrote |-> Null]

\* the kinds of outbound request
RequestKinds == {"github", "blobRead", "blobWrite", "manifest"}

Init ==
  /\ other = NoSecondPass
  /\ silent = {}
  /\ \/ /\ op = "refreshAll"
        /\ registries \in SeqsUpTo(GitHubEntries, MaxEntries)
        /\ githubUrl = <<>>
     \/ /\ op = "readSingle"
        /\ registries = <<>>
        /\ githubUrl \in GithubUrls
     \/ /\ op = "aggregateAll"
        /\ registries \in SeqsUpTo(StatsEntries, MaxEntries)
        /\ githubUrl = <<>>
     \/ /\ op = "buildIndex"
        /\ registries \in SeqsUpTo(ItemsEntries, MaxEntries)
        /\ githubUrl = <<>>
  /\ pc = "start"
  /\ githubToken \in BOOLEAN
  /\ blobToken \in {"absent", "malformed", "valid"}
  /\ blob \in InitialBlobs
  /\ blobToken # "valid" => blob = Null   \* never read, never overwritten
  \* the registry operations read neither the tokens nor the blob
  /\ op \in {"aggregateAll", "buildIndex"} =>
       githubToken /\ blobToken = "absent"
  /\ liveStars = StableStars
  /\ now = T0
  /\ cache = EmptyCache
  /\ tasks = <<>>
  /\ result = Null
  /\ thrown = FALSE
  /\ netlog = <<>>
  /\ written = <<>>
  /\ cache0 = EmptyCache
  /\ checkedAt = T0
  /\ readHow = "none"
  /\ settled = <<>>
  /\ outcomes = <<>>

Next ==
  \/ fetchAllGitHubStats_Start
  \/ readBlobCache_Done
  \/ fetchGitHubRepo_Done
  \/ writeBlobCache_Done
  \/ fetchGitHubStatsForUrl_Start
  \/ fetchGitHubStatsForUrl_Done
  \/ fetchAllRegistryStats_Start
  \/ fetchStatsForRegistry_Done
  \/ fetchAllRegistryItems_Start
  \/ fetchItemsForRegistry_Done
  \/ Tick

Spec == Init /\ [][Next]_vars

(***************************************************************************)
(* Two overlapping calls of fetchAllGitHubStats on the same blob store.    *)
(* The second call runs the same code; its local state is the record       *)
(* `other`: pc, cache, tasks, the payload it handed to put() (written) and, *)
(* as history, the object its write replaced (overwrote).                  *)
(***************************************************************************)
firstCall == <<silent, op, pc, registries, githubUrl, githubToken, blobToken,
               liveStars, now, cache, tasks, result, thrown, netlog, written,
               cache0, checkedAt, readHow, settled, outcomes>>

\* the code from `await Promise.allSettled(...)` to the next suspension point
second_Proceed(c, ts) ==
  IF ~allSettled_Resolved(ts)
    THEN [other EXCEPT !.pc = "waiting", !.cache = c, !.tasks = ts]
  ELSE IF blobToken = "absent"
    THEN [other EXCEPT !.pc = "done", !.cache = c, !.tasks = ts]
  ELSE [other EXCEPT !.pc = "writingBlob", !.cache = c, !.tasks = ts,
                     !.written = Some(JSONStringify(c))]

second_FanOut(c) ==
  LET started == StartTasks(WithGithubUrl(registries), c)
  IN second_Proceed(c, [i \in 1..Len(started) |-> TaskOf(started[i])])

second_fetchAllGitHubStats_Start ==
  /\ other.pc = "start"
  /\ other' = IF ~githubToken THEN [other EXCEPT !.pc = "done"]
              ELSE IF blobToken = "valid" THEN [other EXCEPT !.pc = "readingBlob"]
              ELSE second_FanOut(EmptyCache)
  /\ UNCHANGED <<firstCall, blob>>

second_readBlobCache_Done ==
  /\ other.pc = "readingBlob"
  /\ \E outcome \in BlobReadOutcomes :
       other' = second_FanOut(readBlobCache_Result(outcome))
  /\ UNCHANGED <<firstCall, blob>>

second_fetchGitHubRepo_Done ==
  /\ other.pc = "waiting"
  /\ \E i \in Pending(other.tasks) : \E outcome \in GitHubOutcomes(other.tasks[i].url) :
       \E s \in liveStars :
         LET stats == fetchGitHubRepo_Result(outcome, s)
         IN /\ outcome # "ok" => s = CHOOSE x \in liveStars : TRUE
            /\ other' = second_Proceed(
                          CacheAfterFetch(other.cache, other.tasks[i], stats),
                          [other.tasks EXCEPT ![i] = TaskAfterFetch(other.tasks[i], stats)])
  /\ UNCHANGED <<firstCall, blob>>

second_writeBlobCache_Done ==
  /\ other.pc = "writingBlob"
  /\ \E outcome \in BlobWriteOutcomes :
       /\ blob' = IF outcome = "ok" THEN put(blob, Val(other.written)) ELSE blob
       /\ other' = [other EXCEPT !.pc = "done",
                                 !.overwrote = IF outcome = "ok" THEN Some(blob) ELSE Null]
  /\ UNCHANGED firstCall

\* both calls get the same list; the stored entries are fresh or stale
TwoRepos ==
  <<DirectoryEntry("A", SiteUrl, GH_FooBar, <<>>),
    DirectoryEntry("A", SiteUrl, GH_FooUi, <<>>)>>
StoredBeforeOverlap ==
  {Null} \cup
  {Some(JSONStringify(c)) :
     c \in {x \in InitialCaches :
              \A k \in DOMAIN x.map :
                x.map[k].fetchedAt \in {toISOString(T0), toISOString(T0 - CACHE_TTL_MS)}}}

InitTwoPasses ==
  /\ op = "refreshAll" /\ pc = "start"
  /\ registries = TwoRepos
  /\ githubUrl = <<>>
  /\ githubToken = TRUE
  /\ blobToken = "valid"
  /\ blob \in StoredBeforeOverlap
  /\ other = [NoSecondPass EXCEPT !.pc = "start"]
  /\ silent = {}
  /\ liveStars = StableStars
  /\ now = T0
  /\ cache = EmptyCache
  /\ tasks = <<>>
  /\ result = Null
  /\ thrown = FALSE
  /\ netlog = <<>>
  /\ written = <<>>
  /\ cache0 = EmptyCache
  /\ checkedAt = T0
  /\ readHow = "none"
  /\ settled = <<>>
  /\ outcomes = <<>>

NextTwoPasses ==
  \/ fetchAllGitHubStats_Start
  \/ readBlobCache_Done
  \/ fetchGitHubRepo_Done
  \/ writeBlobCache_Done
  \/ second_fetchAllGitHubStats_Start
  \/ second_readBlobCache_Done
  \/ second_fetchGitHubRepo_Done
  \/ second_writeBlobCache_Done

SpecTwoPasses == InitTwoPasses /\ [][NextTwoPasses]_vars

(***************************************************************************)
(* One call of a batch operation when one kind of request may never be     *)
(* answered.  A step of the code runs when it can, and a response that is  *)
(* going to arrive does arrive: the call does not stop while a step is     *)
(* possible (weak fairness of the next-state relation).                    *)
(***************************************************************************)
InitUnanswered ==
  /\ \/ /\ op = "refreshAll"
        /\ registries \in {<<>>} \cup {<<e>> : e \in GitHubEntries}
        /\ blobToken \in {"absent", "valid"}
     \/ /\ op = "aggregateAll"
        /\ registries \in {<<>>} \cup {<<e>> : e \in StatsEntries}
        /\ blobToken = "absent"
     \/ /\ op = "buildIndex"
        /\ registries \in {<<>>} \cup {<<e>> : e \in ItemsEntries}
        /\ blobToken = "absent"
  /\ silent \in {{}} \cup {{k} : k \in RequestKinds}
  /\ pc = "start"
  /\ githubUrl = <<>>
  /\ githubToken = TRUE
  /\ blob = (IF blobToken = "valid" THEN Some(JSONStringify(EmptyCache)) ELSE Null)
  /\ other = NoSecondPass
  /\ liveStars = StableStars
  /\ now = T0
  /\ cache = EmptyCache
  /\ tasks = <<>>
  /\ result = Null
  /\ thrown = FALSE
  /\ netlog = <<>>
  /\ written = <<>>
  /\ cache0 = EmptyCache
  /\ checkedAt = T0
  /\ readHow = "none"
  /\ settled = <<>>
  /\ outcomes = <<>>

NextUnanswered ==
  \/ fetchAllGitHubStats_Start
  \/ readBlobCache_Done
  \/ fetchGitHubRepo_Done
  \/ writeBlobCache_Done
  \/ fetchAllRegistryStats_Start
  \/ fetchStatsForRegistry_Done
  \/ fetchAllRegistryItems_Start
  \/ fetchItemsForRegistry_Done

SpecUnanswered ==
  InitUnanswered /\ [][NextUnanswered]_vars /\ WF_vars(NextUnanswered)

(***************************************************************************)
(* The two owner/repo parsers applied to a URL, on their own.              *)
(***************************************************************************)
UrlTokens == {"https://", "github.com", "/", "foo", ".git"}
Urls == SeqsUpTo(UrlTokens, MaxUrlLen)

InitParse ==
  /\ op \in {"parseGitHubUrl", "parseGitHubOwnerRepo"}
  /\ githubUrl \in Urls
  /\ pc = "start"
  /\ registries = <<>>
  /\ githubToken = TRUE
  /\ blobToken = "absent"
  /\ blob = Null
  /\ other = NoSecondPass
  /\ silent = {}
  /\ liveStars = StableStars
  /\ now = T0
  /\ cache = EmptyCache
  /\ tasks = <<>>
  /\ result = Null
  /\ thrown = FALSE
  /\ netlog = <<>>
  /\ written = <<>>
  /\ cache0 = EmptyCache
  /\ checkedAt = T0
  /\ readHow = "none"
  /\ settled = <<>>
  /\ outcomes = <<>>

parseGitHubUrl_Call ==
  /\ op = "parseGitHubUrl" /\ pc = "start"
  /\ result' = Some(parseGitHubUrl(githubUrl))
  /\ pc' = "done"
  /\ UNCHANGED <<silent, other, op, registries, githubUrl, githubToken, blobToken, blob,
                 liveStars, now, cache, tasks, thrown, netlog, written, cache0,
                 checkedAt, readHow, settled, outcomes>>

parseGitHubOwnerRepo_Call ==
  /\ op = "parseGitHubOwnerRepo" /\ pc = "start"
  /\ result' = Some(parseGitHubOwnerRepo(githubUrl))
  /\ pc' = "done"
  /\ UNCHANGED <<silent, other, op, registries, githubUrl, githubToken, blobToken, blob,
                 liveStars, now, cache, tasks, thrown, netlog, written, cache0,
                 checkedAt, readHow, settled, outcomes>>

NextParse == parseGitHubUrl_Call \/ parseGitHubOwnerRepo_Call

SpecParse == InitParse /\ [][NextParse]_vars

(***************************************************************************)
(* One call of fetchAllGitHubStats while the star count of a repository    *)
(* changes: two requests for one repository may get different answers.     *)
(***************************************************************************)
ChangingStars == {120, 121}

InitChanging ==
  /\ op = "refreshAll"
  /\ registries \in SeqsUpTo(GitHubEntries, MaxEntries)
  /\ githubUrl = <<>>
  /\ pc = "start"
  /\ githubToken = TRUE
  /\ blobToken \in {"absent", "valid"}
  /\ blob = (IF blobToken = "valid" THEN Some(JSONStringify(EmptyCache)) ELSE Null)
  /\ other = NoSecondPass
  /\ silent = {}
  /\ liveStars = ChangingStars
  /\ now = T0
  /\ cache = EmptyCache
  /\ tasks = <<>>
  /\ result = Null
  /\ thrown = FALSE
  /\ netlog = <<>>
  /\ written = <<>>
  /\ cache0 = EmptyCache
  /\ checkedAt = T0
  /\ readHow = "none"
  /\ settled = <<>>
  /\ outcomes = <<>>

NextChanging ==
  \/ fetchAllGitHubStats_Start
  \/ readBlobCache_Done
  \/ fetchGitHubRepo_Done
  \/ writeBlobCache_Done
  \/ Tick

SpecChanging == InitChanging /\ [][NextChanging]_vars

(***************************************************************************)
(* Properties of fetchAllGitHubStats and fetchGitHubStatsForUrl.           *)
(***************************************************************************)
RefreshAll == op = "refreshAll"
\* the fan-out has run: cache0, checkedAt, tasks and outcomes are set
FannedOut == RefreshAll /\ githubToken /\ pc \in {"waiting", "writingBlob", "done"}
Returned == RefreshAll /\ pc = "done" /\ ~thrown
Returns == Val(result)
GitHubRequestsFor(k) ==
  {i \in 1..Len(netlog) : netlog[i].kind = "github" /\ netlog[i].key = k}
RequestsOfKind(kind) == {i \in 1..Len(netlog) : netlog[i].kind = kind}
PublicOf(e) == [stars |-> e.stars, lastCommit |-> e.lastCommit]
InputKeys == {registries[i].github_url : i \in 1..Len(registries)} \ {<<>>}
Cached0(k) == ~cache0.isNull /\ k \in DOMAIN cache0.map
TasksFor(k) == {i \in 1..Len(tasks) : tasks[i].url = k}

\* C1 (as stated): an entry whose cached value is fresh at the start of the
\* pass (at T0, before the cache is read) is never requested from GitHub, and
\* the returned mapping holds its cached stars and lastCommit.
C1_FreshAtStartOfPass ==
  FannedOut =>
    \A k \in InputKeys :
      (Cached0(k) /\ isFreshAt(cache0.map[k], T0)) =>
        /\ GitHubRequestsFor(k) = {}
        /\ pc = "done" => k \in DOMAIN Returns /\ Returns[k] = PublicOf(cache0.map[k])

\* C1 (amended): an entry whose cached value is fresh when the fan-out checks
\* it (after the cache has been read) is never requested from GitHub during
\* the pass, and the returned mapping holds its cached stars and lastCommit.
C1_FreshWhenCheckedIsServedFromCache ==
  FannedOut =>
    \A k \in InputKeys :
      (Cached0(k) /\ isFreshAt(cache0.map[k], checkedAt)) =>
        /\ GitHubRequestsFor(k) = {}
        /\ pc = "done" => k \in DOMAIN Returns /\ Returns[k] = PublicOf(cache0.map[k])

\* a pass that ended with a cache hit checked after the clock had advanced,
\* next to an entry that was fetched live
C1_Witness ==
  /\ Returned /\ checkedAt > T0
  /\ \E i, j \in 1..Len(outcomes) :
       /\ outcomes[i] = "hit" /\ outcomes[j] = "ok"
       /\ tasks[i].url \in DOMAIN Returns

\* C2 (as stated): when the refetch of an entry with a stale cached value
\* fails, the returned mapping still has the entry, with the stars and
\* lastCommit of the stale cache entry.
C2_StaleValueReturnedWhenRefetchFails ==
  Returned =>
    \A i \in 1..Len(outcomes) :
      (outcomes[i] = "failed" /\ Cached0(tasks[i].url)) =>
        /\ tasks[i].url \in DOMAIN Returns
        /\ Returns[tasks[i].url] = PublicOf(cache0.map[tasks[i].url])

C4_NoGitHubTokenNoNetwork ==
  (RefreshAll /\ ~githubToken) =>
    /\ netlog = <<>> /\ written = <<>> /\ ~thrown
    /\ pc = "done" => result = Some(EmptyMap)

\* the call has returned without a GitHub token, for entries that resolve,
\* with a valid blob token and a stored cache
C4_Witness ==
  /\ RefreshAll /\ ~githubToken /\ pc = "done"
  /\ blobToken = "valid" /\ ~IsNull(blob)
  /\ \E i \in 1..Len(registries) : ~IsNull(parseGitHubUrl(registries[i].github_url))

\* what entry i alone determines: its URL, the cache entry of its own key as
\* read and its freshness when checked, and the outcome of its own request
OwnResult(i) ==
  LET k == tasks[i].url
  IN IF IsNull(parseGitHubUrl(k)) \/ cache0.isNull THEN Null
     ELSE IF k \in DOMAIN cache0.map /\ isFreshAt(cache0.map[k], checkedAt)
       THEN Some(PublicOf(cache0.map[k]))
     ELSE IF outcomes[i] = "ok"
       THEN Some(PublicOf(Val(tasks[i].value).stats))
     ELSE Null

\* C5: for entries with pairwise distinct github_urls, whether entry i is in
\* the returned mapping, and with which value, is decided by entry i's own
\* cache state and own request outcome alone, in every completion order.
C5_PerEntryIsolation ==
  (Returned /\ githubToken
     /\ \A i, j \in 1..Len(tasks) : tasks[i].url = tasks[j].url => i = j) =>
    \A i \in 1..Len(tasks) :
      IF IsNull(OwnResult(i)) THEN tasks[i].url \notin DOMAIN Returns
      ELSE tasks[i].url \in DOMAIN Returns
             /\ Returns[tasks[i].url] = Val(OwnResult(i))

\* a pass over two distinct entries returned: one request failed, the other
\* succeeded
C5_Witness ==
  /\ Returned /\ Len(tasks) = 2 /\ tasks[1].url # tasks[2].url
  /\ \E i, j \in 1..2 : outcomes[i] = "failed" /\ outcomes[j] = "ok"
  /\ Returns # EmptyMap

\* C6: fetchAllGitHubStats, fetchAllRegistryStats and fetchAllRegistryItems
\* never end with a rejection: whatever fails (the blob read, a request of an
\* entry, the parsing of a body, the blob write), each returns a value.
C6_BatchOperationsNeverThrow ==
  op \in {"refreshAll", "aggregateAll", "buildIndex"} =>
    /\ ~thrown
    /\ pc = "done" => ~IsNull(result)

\* an index was returned although the promise of one entry was rejected
C6_Witness ==
  /\ op = "buildIndex" /\ pc = "done" /\ ~IsNull(result)
  /\ Val(result) # <<>>
  /\ \E i \in 1..Len(tasks) : tasks[i].status = "rejected"

\* C7 (as stated): every pass with a GitHub token makes exactly one
\* blob-store read.
C7_ExactlyOneBlobRead ==
  FannedOut => Cardinality(RequestsOfKind("blobRead")) = 1

\* C7 (amended): in a pass with a GitHub token the cache is read from the
\* blob store exactly once when the blob token is usable and not at all
\* otherwise; a read precedes every GitHub request; there is at most one
\* write, issued after every GitHub request and only when every task of the
\* fan-out has settled; the result exists only when every task has settled.
C7_ReadThenFetchThenWriteOnce ==
  (RefreshAll /\ githubToken) =>
    /\ Cardinality(RequestsOfKind("blobRead")) =
         (IF blobToken = "valid" /\ pc # "start" THEN 1 ELSE 0)
    /\ \A i \in RequestsOfKind("blobRead") : \A j \in RequestsOfKind("github") : i < j
    /\ pc = "readingBlob" => RequestsOfKind("github") = {}
    /\ Cardinality(RequestsOfKind("blobWrite")) <= 1
    /\ Len(written) = Cardinality(RequestsOfKind("blobWrite"))
    /\ \A i \in RequestsOfKind("github") : \A j \in RequestsOfKind("blobWrite") : i < j
    /\ (RequestsOfKind("blobWrite") # {} \/ result # Null) =>
         \A i \in 1..Len(tasks) : tasks[i].status # "pending"

\* a pass that read the cache, issued two GitHub requests and wrote the cache
C7_Witness ==
  /\ Returned
  /\ Cardinality(RequestsOfKind("blobRead")) = 1
  /\ Cardinality(RequestsOfKind("github")) = 2
  /\ Cardinality(RequestsOfKind("blobWrite")) = 1

\* C8: when the request for an entry that was absent from the cache or stale
\* succeeds, the cache entry of its key becomes {stars, lastCommit,
\* fetchedAt = now} of the response and is fresh right after the write, and
\* the returned mapping has the key with the response's stars and lastCommit.
C8_SuccessfulRefetchOverwritesFresh ==
  [][ /\ \A i \in 1..Len(outcomes) :
           (RefreshAll /\ pc = "waiting" /\ Len(outcomes') = Len(outcomes)
              /\ outcomes[i] = "requested" /\ outcomes'[i] = "ok") =>
             LET k == tasks[i].url
             IN /\ k \in DOMAIN cache'.map
                /\ cache'.map[k].stars \in liveStars
                /\ cache'.map[k].lastCommit = LivePushedAt
                /\ cache'.map[k].fetchedAt = toISOString(now)
                /\ now' - getTime(cache'.map[k].fetchedAt) < CACHE_TTL_MS
      /\ (op' = "refreshAll" /\ pc' = "done" /\ ~thrown') =>
           \A i \in 1..Len(outcomes') :
             outcomes'[i] = "ok" =>
               /\ tasks'[i].url \in DOMAIN Val(result')
               /\ Val(result')[tasks'[i].url].stars \in liveStars
               /\ Val(result')[tasks'[i].url].lastCommit = LivePushedAt
    ]_vars

\* a pass returned after refreshing one entry that was stale in the cache and
\* one that was absent from it
C8_Witness ==
  /\ Returned
  /\ \E i, j \in 1..Len(outcomes) :
       /\ outcomes[i] = "ok" /\ Cached0(tasks[i].url)
       /\ outcomes[j] = "ok" /\ ~Cached0(tasks[j].url)
       /\ cache.map[tasks[i].url] # cache0.map[tasks[i].url]

\* C9: every key of the returned mapping is the github_url of an input entry
\* and resolves to an owner/repo pair; entries without github_url, entries
\* whose github_url does not resolve and cached URLs that are not in the
\* input contribute no key.
C9_KeysAreResolvableInputUrls ==
  Returned =>
    DOMAIN Returns \subseteq {k \in InputKeys : ~IsNull(parseGitHubUrl(k))}

\* a pass returned a key for a list that also has an entry that does not
\* resolve or has no github_url, while the cache holds a URL not in the list
C9_Witness ==
  /\ Returned /\ Returns # EmptyMap
  /\ \E i \in 1..Len(registries) : IsNull(parseGitHubUrl(registries[i].github_url))
  /\ \E k \in DOMAIN cache0.map : k \notin InputKeys

\* C10: every value returned by fetchAllGitHubStats and by
\* fetchGitHubStatsForUrl has exactly the fields stars and lastCommit, on the
\* cache-hit path and on the refetch path, while every entry of the cache and
\* of the payloads written to the blob store has fetchedAt.
C10_FetchedAtIsCacheInternal ==
  /\ Returned =>
       \A k \in DOMAIN Returns : DOMAIN Returns[k] = {"stars", "lastCommit"}
  /\ (op = "readSingle" /\ pc = "done" /\ ~IsNull(Val(result))) =>
       DOMAIN Val(Val(result)) = {"stars", "lastCommit"}
  /\ \A k \in DOMAIN cache.map : "fetchedAt" \in DOMAIN cache.map[k]
  /\ \A n \in 1..Len(written) : \A m \in written[n].members :
       DOMAIN m[2] = {"stars", "lastCommit", "fetchedAt"}

\* a pass returned one value from the cache and one from a live request, and
\* wrote the cache
C10_Witness ==
  /\ Returned /\ written # <<>>
  /\ \E i, j \in 1..Len(outcomes) :
       /\ outcomes[i] = "hit" /\ outcomes[j] = "ok"
       /\ {tasks[i].url, tasks[j].url} \subseteq DOMAIN Returns

\* the cache entries the call has in hand: as read, and as updated
EntriesInHand ==
  {cache0.map[k] : k \in DOMAIN cache0.map} \cup {cache.map[k] : k \in DOMAIN cache.map}
AgeAt(e, t) == t - getTime(e.fetchedAt)

\* C11: for every cache entry and every time now, isFresh(entry) is true
\* exactly when now - fetchedAt < 86400000 ms: true at age 0 and 86399999,
\* false at age 86400000 and 86400001; and the fan-out serves an entry from
\* the cache exactly when that holds at the time it checks.
C11_IsFreshBoundary ==
  /\ \A e \in EntriesInHand :
       /\ isFresh(e) <=> (now - getTime(e.fetchedAt) < 86400000)
       /\ AgeAt(e, now) \in {0, 86399999} => isFresh(e)
       /\ AgeAt(e, now) \in {86400000, 86400001} => ~isFresh(e)
  /\ FannedOut =>
       \A i \in 1..Len(tasks) :
         (Cached0(tasks[i].url) /\ ~IsNull(parseGitHubUrl(tasks[i].url))) =>
           (outcomes[i] = "hit" <=>
              AgeAt(cache0.map[tasks[i].url], checkedAt) < 86400000)

\* a pass that served an entry of age 86399999 from the cache and requested
\* one of age 86400000, which is 86400001 old now
C11_Witness ==
  /\ Returned
  /\ \E i, j \in 1..Len(tasks) :
       /\ Cached0(tasks[i].url) /\ Cached0(tasks[j].url)
       /\ AgeAt(cache0.map[tasks[i].url], checkedAt) = 86399999
       /\ outcomes[i] = "hit"
       /\ AgeAt(cache0.map[tasks[j].url], checkedAt) = 86400000
       /\ AgeAt(cache0.map[tasks[j].url], now) = 86400001
       /\ outcomes[j] \in {"ok", "failed"}

\* C12: when readBlobCache cannot deliver the stored cache (no usable blob
\* token, the store unreachable or answering non-ok, a body that does not
\* parse) it yields the empty mapping and nothing is raised; every entry
\* whose github_url resolves is then requested from GitHub, and the pass
\* returns exactly the entries whose request succeeded, with the live values.
C12_ReadFailsOpen ==
  (FannedOut /\ readHow # "ok") =>
    /\ cache0 = EmptyCache /\ ~thrown
    /\ \A i \in 1..Len(tasks) :
         ~IsNull(parseGitHubUrl(tasks[i].url)) =>
           /\ outcomes[i] \in {"requested", "ok", "failed"}
           /\ GitHubRequestsFor(tasks[i].url) # {}
    /\ Cardinality(RequestsOfKind("github")) =
         Cardinality({i \in 1..Len(tasks) : ~IsNull(parseGitHubUrl(tasks[i].url))})
    /\ pc = "done" =>
         /\ ~IsNull(result)
         /\ DOMAIN Returns = {tasks[i].url : i \in {j \in 1..Len(tasks) : outcomes[j] = "ok"}}
         /\ \A i \in 1..Len(tasks) :
              outcomes[i] = "ok" =>
                /\ Returns[tasks[i].url].stars \in liveStars
                /\ Returns[tasks[i].url].lastCommit = LivePushedAt

\* a stored cache could not be read (the store answered, but not with JSON,
\* or not at all); one entry was then fetched live and returned, another failed
C12_Witness ==
  /\ Returned /\ blobToken = "valid" /\ readHow = "throw"
  /\ \E i, j \in 1..Len(tasks) : outcomes[i] = "ok" /\ outcomes[j] = "failed"
  /\ Returns # EmptyMap

\* C13: the step that ends the blob write returns, for either outcome of the
\* write, the mapping that the settled tasks determined before the write
\* started, and it never raises: the mapping returned when the write fails is
\* the one returned when it succeeds.
C13_WriteFailureDoesNotChangeResult ==
  [][ (RefreshAll /\ pc = "writingBlob" /\ pc' = "done") =>
        /\ ~thrown'
        /\ result' = Some(BuildStatsRecord(tasks))
        /\ tasks' = tasks
    ]_vars

\* a pass returned a non-empty mapping although its write was refused: the
\* store does not hold what was handed to put()
C13_Witness ==
  /\ Returned /\ written # <<>> /\ blobToken = "valid"
  /\ blob # Some(written[Len(written)])
  /\ Returns # EmptyMap

ReadSingle == op = "readSingle"
\* the keys of the object stored in the blob store (none for JSON null)
StoredKeys == IF IsNull(blob) THEN {} ELSE {m[1] : m \in Val(blob).members}

\* C14: fetchGitHubStatsForUrl issues no request to the GitHub API and no
\* write to the blob store; it reads the stored cache at most once, with a
\* revalidating fetch; it never raises; and it returns null whenever the blob
\* token is unusable, the read fails or is not ok, the body does not parse,
\* or the URL is not a key of the stored cache.
C14_ReadSingleIsReadOnly ==
  ReadSingle =>
    /\ RequestsOfKind("github") = {} /\ RequestsOfKind("blobWrite") = {}
    /\ written = <<>>
    /\ Cardinality(RequestsOfKind("blobRead")) <= 1
    /\ \A i \in 1..Len(netlog) : netlog[i] = BlobRevalidatingRead
    /\ ~thrown
    /\ pc = "done" =>
         /\ ~IsNull(result)
         /\ (blobToken # "valid" \/ readHow # "ok" \/ githubUrl \notin StoredKeys) =>
              Val(result) = Null

\* the stored cache was read, it has entries, the URL asked for is a GitHub
\* URL that is not among them, and null was returned
C14_Witness ==
  /\ ReadSingle /\ pc = "done" /\ readHow = "ok"
  /\ StoredKeys # {} /\ githubUrl \notin StoredKeys /\ githubUrl # <<>>
  /\ result = Some(Null) /\ Len(netlog) = 1

(***************************************************************************)
(* Properties of fetchAllRegistryStats and fetchAllRegistryItems.          *)
(***************************************************************************)
BuildIndex == op = "buildIndex"
IndexReturned == BuildIndex /\ pc = "done" /\ ~thrown
Index == Val(result)
KeysOf(items) == {ItemKey(items[i]) : i \in 1..Len(items)}
Fulfilled == {i \in 1..Len(tasks) : tasks[i].status = "fulfilled"}
HasRepeatedKey(items) ==
  \E i, j \in 1..Len(items) : i # j /\ ItemKey(items[i]) = ItemKey(items[j])

\* C15: the index returned by fetchAllRegistryItems has at most one item per
\* key owner/repo/name, also when one manifest lists a name several times,
\* and every key of a fulfilled fetchItemsForRegistry result is in the index
\* (exactly once).
C15_OneItemPerIdentityKey ==
  IndexReturned =>
    /\ ~HasRepeatedKey(Index)
    /\ KeysOf(Index) = UNION {KeysOf(tasks[i].value) : i \in Fulfilled}

\* an index was returned for two entries of the same repository: the result
\* of one lists a key several times, and both list a common key
C15_Witness ==
  /\ IndexReturned /\ Len(tasks) = 2 /\ Fulfilled = {1, 2}
  /\ HasRepeatedKey(tasks[1].value)
  /\ KeysOf(tasks[1].value) \cap KeysOf(tasks[2].value) # {}
  /\ Len(Index) = 2

Min(S) == CHOOSE x \in S : \A y \in S : x <= y
FirstWithKey(items, k) ==
  items[Min({n \in 1..Len(items) : ItemKey(items[n]) = k})]
IndexItems(k) == {n \in 1..Len(Index) : ItemKey(Index[n]) = k}
IndexItem(k) == Index[CHOOSE n \in IndexItems(k) : TRUE]
PositionIn(order, i) == CHOOSE n \in 1..Len(order) : order[n] = i
SettledBefore(i, j) == PositionIn(settled, i) < PositionIn(settled, j)
CommonKeys(i, j) == KeysOf(tasks[i].value) \cap KeysOf(tasks[j].value)

\* C16 (as stated): when the manifests of two entries list an item with the
\* same key owner/repo/name, the index has exactly one item for the key, and
\* it is the one of the entry whose fetch settled first.
C16_FirstSettledWins ==
  IndexReturned =>
    \A i, j \in Fulfilled : \A k \in CommonKeys(i, j) :
      (i # j /\ SettledBefore(i, j)) =>
        /\ Cardinality(IndexItems(k)) = 1
        /\ IndexItem(k) = FirstWithKey(tasks[i].value, k)

\* C16 (amended): when the manifests of two entries list an item with the
\* same key owner/repo/name, the index has exactly one item for the key, and
\* it is the one of the entry that comes first in the input list, whatever
\* the order in which the fetches settled.
C16_FirstInListWins ==
  IndexReturned =>
    \A i, j \in Fulfilled : \A k \in CommonKeys(i, j) :
      i < j =>
        /\ Cardinality(IndexItems(k)) = 1
        /\ IndexItem(k) = FirstWithKey(tasks[Min({n \in Fulfilled : k \in KeysOf(tasks[n].value)})].value, k)

\* two entries of one repository list the same key with different items; the
\* fetch of the second settled first, and the index holds the first's item
C16_Witness ==
  /\ IndexReturned /\ settled = <<2, 1>> /\ Fulfilled = {1, 2}
  /\ \E k \in CommonKeys(1, 2) :
       /\ FirstWithKey(tasks[1].value, k) # FirstWithKey(tasks[2].value, k)
       /\ IndexItem(k) = FirstWithKey(tasks[1].value, k)

AggregateAll == op = "aggregateAll"
Max(S) == CHOOSE x \in S : \A y \in S : x >= y
ListOrder == [i \in 1..Len(registries) |-> i]
\* what entry i yields, from the entry and the response to its request alone
StatsOfEntry(i) ==
  IF IsNull(getRegistryJsonUrl(registries[i])) THEN Null
  ELSE fetchStatsForRegistry_Result(outcomes[i][1], outcomes[i][2])
ItemsOfEntry(i) ==
  IF ~ItemsRequested(registries[i]) THEN [status |-> "fulfilled", value |-> <<>>]
  ELSE fetchItemsForRegistry_Result(registries[i], outcomes[i][1], outcomes[i][2])
WithStats == {i \in 1..Len(registries) : ~IsNull(StatsOfEntry(i))}
\* the record and the index as functions of the list and the responses
StatsByList ==
  [u \in {registries[i].url : i \in WithStats} |->
     Val(StatsOfEntry(Max({i \in WithStats : registries[i].url = u})))]
IndexByList ==
  Deduplicate(ValuesInOrder([i \in 1..Len(registries) |-> ItemsOfEntry(i)], ListOrder))

\* C17: the value fetchAllRegistryStats and fetchAllRegistryItems return is
\* a function of the list of entries and of the response each entry got: two
\* calls with the same list and the same responses return the same keys,
\* values, index order and surviving duplicates, in whatever order the
\* fetches settle.
C17_DeterministicUnderScheduling ==
  /\ (AggregateAll /\ pc = "done") => result = Some(StatsByList)
  /\ (BuildIndex /\ pc = "done") => result = Some(IndexByList)

\* two entries with the same url got different manifests, the fetch of the
\* second settled first, and the record holds the stats of the second
C17_Witness ==
  /\ AggregateAll /\ pc = "done" /\ settled = <<2, 1>>
  /\ registries[1].url = registries[2].url
  /\ WithStats = {1, 2} /\ StatsOfEntry(1) # StatsOfEntry(2)
  /\ Val(result)[registries[1].url] = Val(StatsOfEntry(2))

Settled(i) == tasks[i].status # "pending"
StatsTaskValue(i) == Val(tasks[i].value).stats

\* C18: fetchStatsForRegistry never rejects and returns null when no
\* manifest URL can be resolved, when the response is not ok, when the fetch
\* or the JSON parsing throws, and when `items` is absent or empty; it
\* returns a RegistryStats only for a manifest with at least one item.
C18_ComputeStatsFailsClosed ==
  AggregateAll =>
    /\ ~thrown
    /\ \A i \in 1..Len(tasks) :
         Settled(i) =>
           /\ tasks[i].status = "fulfilled"
           /\ IF IsNull(getRegistryJsonUrl(registries[i]))
                THEN IsNull(StatsTaskValue(i))
                ELSE LET outcome == outcomes[i][1]
                         data == outcomes[i][2]
                     IN /\ ( \/ outcome \in {"notok", "throw", "badjson"}
                             \/ ~data.hasItems
                             \/ Len(data.items) = 0 ) => IsNull(StatsTaskValue(i))
                        /\ ~IsNull(StatsTaskValue(i)) =>
                             /\ outcome = "ok" /\ Len(data.items) >= 1
                             /\ Val(StatsTaskValue(i)).totalItems >= 1

\* a call returned the empty record: one manifest had `items: []`, the body
\* of the other was not JSON
C18_Witness ==
  /\ AggregateAll /\ pc = "done" /\ Len(tasks) = 2 /\ result = Some(EmptyMap)
  /\ \A i \in 1..2 : ~IsNull(getRegistryJsonUrl(registries[i]))
  /\ \E i, j \in 1..2 :
       /\ outcomes[i] = <<"ok", Registry(TRUE, <<>>)>>
       /\ outcomes[j][1] = "badjson"

\* the settled tasks of fetchAllRegistryStats that produced a RegistryStats
Computed == {i \in 1..Len(tasks) : Settled(i) /\ ~IsNull(StatsTaskValue(i))}
ManifestItems(i) == outcomes[i][2].items
FirstSeen(items, slug) == Min({n \in 1..Len(items) : items[n].category = slug})
GroupSize(items, slug) == Cardinality({n \in 1..Len(items) : items[n].category = slug})

\* C19: the categories of a RegistryStats hold one {slug, count} per
\* category of the manifest, count being the number of items of the
\* category, in descending order of count; categories of equal count are in
\* the order in which they first occur in the manifest.
C19_CategoriesSortedStable ==
  AggregateAll =>
    \A i \in Computed :
      LET items == ManifestItems(i)
          cats == Val(StatsTaskValue(i)).categories
      IN /\ {cats[a].slug : a \in 1..Len(cats)} = {items[n].category : n \in 1..Len(items)}
         /\ \A a, b \in 1..Len(cats) : cats[a].slug = cats[b].slug => a = b
         /\ \A a \in 1..Len(cats) : cats[a].count = GroupSize(items, cats[a].slug)
         /\ \A a, b \in 1..Len(cats) :
              a < b =>
                /\ cats[a].count >= cats[b].count
                /\ cats[a].count = cats[b].count =>
                     FirstSeen(items, cats[a].slug) < FirstSeen(items, cats[b].slug)

\* stats were computed for a manifest whose second category is the larger
\* one and for a manifest with two categories of the same size
C19_Witness ==
  /\ AggregateAll /\ pc = "done"
  /\ \E i, j \in Computed :
       LET ci == Val(StatsTaskValue(i)).categories
           cj == Val(StatsTaskValue(j)).categories
       IN /\ Len(ci) = 2 /\ ci[1].count > ci[2].count
          /\ FirstSeen(ManifestItems(i), ci[1].slug) > FirstSeen(ManifestItems(i), ci[2].slug)
          /\ Len(cj) = 2 /\ cj[1].count = cj[2].count

\* C20: in a RegistryStats computed for a manifest of n >= 1 items,
\* totalItems is n and topItems is the names of the first min(5, n) items of
\* the manifest, in manifest order: never more than 5, and not in the order
\* of the categories.
C20_TotalAndTopItems ==
  AggregateAll =>
    \A i \in Computed :
      LET items == ManifestItems(i)
          n == Len(items)
          stats == Val(StatsTaskValue(i))
      IN /\ n >= 1 /\ stats.totalItems = n
         /\ Len(stats.topItems) = (IF n < 5 THEN n ELSE 5)
         /\ \A a \in 1..Len(stats.topItems) : stats.topItems[a] = items[a].name

\* stats were computed for a manifest of six items, whose first item is not
\* of its first category in the sorted order, and for a manifest of three
C20_Witness ==
  /\ AggregateAll /\ pc = "done"
  /\ \E i, j \in Computed :
       /\ Len(ManifestItems(i)) = 6 /\ Len(Val(StatsTaskValue(i)).topItems) = 5
       /\ Len(ManifestItems(j)) = 3 /\ Len(Val(StatsTaskValue(j)).topItems) = 3
       /\ ManifestItems(j)[1].category # Val(StatsTaskValue(j)).categories[1].slug

StatsReturned == AggregateAll /\ pc = "done" /\ ~thrown
RegistryStatsFields == {"totalItems", "categories", "topItems"}

\* C21: the record fetchAllRegistryStats returns has a key u exactly when
\* fetchStatsForRegistry returned a value for some input entry with url u;
\* the value under u is the RegistryStats of such an entry, never null or an
\* error marker; an entry whose computation failed or returned null
\* contributes no key.
C21_StatsRecordKeys ==
  StatsReturned =>
    /\ DOMAIN Val(result) = {registries[i].url : i \in WithStats}
    /\ \A u \in DOMAIN Val(result) :
         /\ Val(result)[u] \in
              {Val(StatsOfEntry(i)) : i \in {j \in WithStats : registries[j].url = u}}
         /\ DOMAIN Val(result)[u] = RegistryStatsFields
         /\ Val(result)[u].totalItems >= 1

\* a record with one key was returned for two entries with different urls:
\* stats were computed for one, the request of the other failed
C21_Witness ==
  /\ StatsReturned /\ Len(registries) = 2
  /\ registries[1].url # registries[2].url
  /\ \A i \in 1..2 : ~IsNull(getRegistryJsonUrl(registries[i]))
  /\ Cardinality(WithStats) = 1
  /\ \E i \in 1..2 : outcomes[i][1] \in {"notok", "throw"}
  /\ Cardinality(DOMAIN Val(result)) = 1

\* the entry gives fetchItemsForRegistry nothing to request
NothingToRequest(r) ==
  \/ IsNull(fetchUtils_getRegistryJsonUrl(r))
  \/ r.github_url = <<>>
  \/ IsNull(parseGitHubOwnerRepo(r.github_url))
ReturnsEmpty(i) == tasks[i].status = "fulfilled" /\ tasks[i].value = <<>>

\* C22 (as stated): fetchItemsForRegistry returns the empty sequence and
\* does not raise when no manifest URL resolves, when github_url is missing,
\* when the fetch fails (network error, timeout, malformed JSON) or is not
\* ok, and when the manifest has no items.
C22_FetchItemsNeverRaises ==
  BuildIndex =>
    \A i \in 1..Len(tasks) :
      Settled(i) =>
        IF NothingToRequest(registries[i]) THEN ReturnsEmpty(i)
        ELSE ( \/ outcomes[i][1] \in {"notok", "throw", "badjson"}
               \/ ~outcomes[i][2].hasItems
               \/ Len(outcomes[i][2].items) = 0 ) => ReturnsEmpty(i)

\* C22 (amended): fetchItemsForRegistry returns the empty sequence when no
\* manifest URL resolves, when github_url is missing or does not resolve,
\* when the response is not ok, and when the manifest has no items; when
\* the fetch or the JSON parsing throws, its promise is rejected, and
\* fetchAllRegistryItems still returns an index.
C22_FetchItemsEmptyOrRejected ==
  BuildIndex =>
    /\ ~thrown
    /\ pc = "done" => ~IsNull(result)
    /\ \A i \in 1..Len(tasks) :
         Settled(i) =>
           IF NothingToRequest(registries[i]) THEN ReturnsEmpty(i)
           ELSE /\ ( \/ outcomes[i][1] = "notok"
                     \/ (outcomes[i][1] = "ok" /\ ~outcomes[i][2].hasItems)
                     \/ (outcomes[i][1] = "ok" /\ Len(outcomes[i][2].items) = 0) )
                     => ReturnsEmpty(i)
                /\ outcomes[i][1] \in {"throw", "badjson"} <=> tasks[i].status = "rejected"

\* an index was returned for two entries: the body of one response was not
\* JSON and its promise was rejected, the other response was not ok
C22_Witness ==
  /\ IndexReturned /\ Len(tasks) = 2
  /\ \A i \in 1..2 : ~NothingToRequest(registries[i])
  /\ \E i, j \in 1..2 :
       /\ outcomes[i][1] = "badjson" /\ tasks[i].status = "rejected"
       /\ outcomes[j][1] = "notok" /\ ReturnsEmpty(j)

\* the entries whose manifest was delivered
Delivered ==
  {i \in 1..Len(registries) :
     ~NothingToRequest(registries[i]) /\ Settled(i) /\ outcomes[i][1] = "ok"}
\* x is what manifest item it of the entry r becomes in the index
MapsTo(it, r, x) ==
  /\ it.renderable
  /\ x.name = it.name /\ x.type = it.type
  /\ x.description = (IF IsNull(it.description) THEN "" ELSE Val(it.description))
  /\ x.categories = (IF IsNull(it.categories) THEN <<>> ELSE Val(it.categories))
  /\ x.registry.name = r.name
  /\ ~IsNull(parseGitHubOwnerRepo(r.github_url))
  /\ x.registry.owner = Val(parseGitHubOwnerRepo(r.github_url)).owner
  /\ x.registry.repo = Val(parseGitHubOwnerRepo(r.github_url)).repo
  /\ DOMAIN x = {"name", "type", "description", "categories", "registry"}

\* C23: every item of the index comes from an item of a delivered manifest
\* that has only renderable files; it has that item's name and type, its
\* description or "" and its categories or [], the name of its directory
\* entry and the owner and repo resolved from the entry's github_url; an
\* entry whose github_url is missing or does not resolve contributes nothing.
C23_IndexedItemShape ==
  BuildIndex =>
    /\ \A i \in 1..Len(tasks) :
         /\ NothingToRequest(registries[i]) => tasks[i].value = <<>>
         /\ \A n \in 1..Len(tasks[i].value) :
              /\ i \in Delivered
              /\ \E m \in 1..Len(outcomes[i][2].items) :
                   MapsTo(outcomes[i][2].items[m], registries[i], tasks[i].value[n])
    /\ pc = "done" =>
         \A n \in 1..Len(Index) :
           \E i \in Delivered : \E m \in 1..Len(outcomes[i][2].items) :
             MapsTo(outcomes[i][2].items[m], registries[i], Index[n])

\* an index was returned for an entry whose github_url ends in .git and
\* whose manifest has an item with non-renderable files, next to an entry
\* without github_url: it holds an item with its own description and an item
\* with the default description, tagged foo/ui
C23_Witness ==
  /\ IndexReturned /\ Len(registries) = 2
  /\ \E i, j \in 1..2 :
       /\ registries[i].github_url = GH_FooUi /\ i \in Delivered
       /\ \E m \in 1..Len(outcomes[i][2].items) : ~outcomes[i][2].items[m].renderable
       /\ registries[j].github_url = <<>>
  /\ \E a, b \in 1..Len(Index) :
       /\ Index[a].description = "" /\ Index[a].categories = <<>>
       /\ Index[b].description = "A button"
       /\ Index[a].registry.repo = <<"ui">>

(***************************************************************************)
(* Properties of two overlapping calls.                                    *)
(***************************************************************************)
FirstWrites == pc = "writingBlob" /\ pc' = "done"
SecondWrites == other.pc = "writingBlob" /\ other'.pc = "done"

\* C24: when two passes overlap on the same stored object, the object only
\* changes in the step that ends a write, and that step either leaves it as
\* it was (the write failed) or makes it the complete serialized cache of
\* the writing pass, whatever was stored before: the last successful write
\* wins and nothing is merged.
C24_LastWriteWinsNoMerge ==
  [][ /\ FirstWrites => blob' \in {blob, Some(JSONStringify(cache))}
      /\ SecondWrites => blob' \in {blob, Some(JSONStringify(other.cache))}
      /\ blob' # blob => (FirstWrites \/ SecondWrites)
    ]_vars

\* both passes are done; the first refreshed an entry and wrote it, the
\* second then replaced what the first had written, and the stored object
\* does not have the entry as the first pass wrote it
C24_Witness ==
  /\ pc = "done" /\ other.pc = "done" /\ written # <<>>
  /\ other.overwrote = Some(Some(written[1]))
  /\ blob = other.written
  /\ \E i \in 1..Len(outcomes) :
       /\ outcomes[i] = "ok"
       /\ <<tasks[i].url, cache.map[tasks[i].url]>> \in written[1].members
       /\ <<tasks[i].url, cache.map[tasks[i].url]>> \notin Val(blob).members

(***************************************************************************)
(* Progress.                                                               *)
(***************************************************************************)
\* C25 (as stated): every pass of fetchAllGitHubStats, fetchAllRegistryStats
\* and fetchAllRegistryItems eventually returns, also when an upstream
\* service never answers a request.
C25_EveryPassCompletes == <>(pc = "done")

(***************************************************************************)
(* Requests.                                                               *)
(***************************************************************************)
ManifestRequestsFor(u) ==
  {i \in 1..Len(netlog) : netlog[i].kind = "manifest" /\ netlog[i].key = u}
\* the entries of the list for which the pass awaited a GitHub request
GitHubRequested(k) ==
  {i \in 1..Len(tasks) :
     tasks[i].url = k /\ outcomes[i] \in {"requested", "ok", "failed"}}
\* the entries of the list for which the pass awaited a manifest request
ManifestRequested(u) ==
  {i \in 1..Len(tasks) :
     tasks[i].url = u /\ (tasks[i].status = "pending" \/ i \in SeqToSet(settled))}

\* C26: within a pass no request is repeated: fetchAllGitHubStats has issued
\* at most one GitHub request for each entry of the list, and
\* fetchAllRegistryStats and fetchAllRegistryItems at most one manifest request
\* for each entry, whether the request succeeded, failed or is still awaited.
C26_NoRetry ==
  /\ \A n \in 1..Len(netlog) :
       /\ netlog[n].kind = "github" => op = "refreshAll"
       /\ netlog[n].kind = "manifest" => op \in {"aggregateAll", "buildIndex"}
  /\ op = "refreshAll" =>
       \A k \in GithubUrls :
         Cardinality(GitHubRequestsFor(k)) <= Cardinality(GitHubRequested(k))
  /\ op \in {"aggregateAll", "buildIndex"} =>
       \A u \in {netlog[n].key : n \in 1..Len(netlog)} :
         Cardinality(ManifestRequestsFor(u)) <= Cardinality(ManifestRequested(u))
C26_Witness ==
  /\ Returned
  /\ \E i \in 1..Len(tasks) :
       /\ outcomes[i] = "failed"
       /\ Cardinality(GitHubRequestsFor(tasks[i].url)) = 1

(***************************************************************************)
(* getRegistryJsonUrl.                                                     *)
(***************************************************************************)
Last(q) == q[Len(q)]
Front(q) == SubSeq(q, 1, Len(q) - 1)
\* the requests of the pass, as <<key, path>>, in the order they were issued
ManifestPaths == [n \in 1..Len(netlog) |-> <<netlog[n].key, netlog[n].path>>]
\* the entries for which getRegistryJsonUrl gave a URL, as <<key, that URL>>
RECURSIVE ResolvedUrls(_)
ResolvedUrls(rs) ==
  IF rs = <<>> THEN <<>>
  ELSE (IF IsNull(getRegistryJsonUrl(Head(rs))) THEN <<>>
        ELSE <<<<Head(rs).url, Val(getRegistryJsonUrl(Head(rs)))>>>>)
         \o ResolvedUrls(Tail(rs))

\* C27: getRegistryJsonUrl returns registry_url unchanged when it is present,
\* whatever url is; otherwise url without its trailing slash followed by
\* /r/registry.json; and null when both are absent.  It has a value for every
\* entry, and fetchAllRegistryStats requests exactly the URLs it returns.
C27_ManifestUrl ==
  /\ \A i \in 1..Len(registries) :
       LET r == registries[i]
           u == getRegistryJsonUrl(r)
       IN /\ r.registry_url # <<>> => u = Some(r.registry_url)
          /\ (r.registry_url = <<>> /\ r.url = <<>>) => IsNull(u)
          /\ (r.registry_url = <<>> /\ r.url # <<>>) =>
               /\ ~IsNull(u)
               /\ Last(Val(u)) = "/r/registry.json"
               /\ IF Last(r.url) = "/" THEN Front(Val(u)) = Front(r.url)
                                        ELSE Front(Val(u)) = r.url
  /\ (op = "aggregateAll" /\ pc # "start") => ManifestPaths = ResolvedUrls(registries)
C27_Witness ==
  /\ op = "aggregateAll" /\ pc = "done"
  /\ \E i, j \in 1..Len(registries) :
       /\ registries[i].registry_url # <<>> /\ registries[i].url # <<>>
       /\ registries[j].registry_url = <<>> /\ registries[j].url # <<>>
       /\ Last(registries[j].url) = "/"
       /\ <<registries[i].url, registries[i].registry_url>> \in SeqToSet(ManifestPaths)
       /\ <<registries[j].url, Front(registries[j].url) \o <<"/r/registry.json">>>>
            \in SeqToSet(ManifestPaths)

(***************************************************************************)
(* The owner/repo parsers.                                                 *)
(***************************************************************************)
Parsed == op \in {"parseGitHubUrl", "parseGitHubOwnerRepo"} /\ pc = "done"
\* the tokens of s from i up to the next "/" or the end of s
SegmentAt(s, i) == SubSeq(s, i, RunEnd(s, i))
\* "github.com", "/" at i, then a non-empty segment, "/", a non-empty segment
TwoSegmentsAt(s, i) ==
  /\ i + 1 <= Len(s) /\ s[i] = "github.com" /\ s[i + 1] = "/"
  /\ SegmentAt(s, i + 2) # <<>>
  /\ i + 2 + Len(SegmentAt(s, i + 2)) <= Len(s)
  /\ SegmentAt(s, i + 3 + Len(SegmentAt(s, i + 2))) # <<>>
WithoutDotGit(seg) == IF Last(seg) = ".git" THEN Front(seg) ELSE seg

\* C28 (as stated): a parser of owner and repo returns the first two non-empty
\* path segments after github.com/, the second without one trailing .git;
\* it returns null for a URL without two such segments; and an owner and a
\* repo it returns are never empty and hold no "/".
C28_OwnerRepoNonEmpty ==
  Parsed =>
    LET res == Val(result)
        at == {i \in 1..Len(githubUrl) : TwoSegmentsAt(githubUrl, i)}
    IN /\ at = {} => IsNull(res)
       /\ ~IsNull(res) =>
            /\ Val(res).owner # <<>> /\ Val(res).repo # <<>>
            /\ "/" \notin SeqToSet(Val(res).owner)
            /\ "/" \notin SeqToSet(Val(res).repo)
            /\ at # {}
            /\ LET i == Min(at)
                   first == SegmentAt(githubUrl, i + 2)
                   second == SegmentAt(githubUrl, i + 3 + Len(first))
               IN Val(res).owner = first /\ Val(res).repo = WithoutDotGit(second)

(***************************************************************************)
(* What a pass of fetchAllGitHubStats changes in the cache.                *)
(***************************************************************************)
\* the keys for which a request of this pass has succeeded
RefetchedKeys == {tasks[i].url : i \in {j \in 1..Len(tasks) : outcomes[j] = "ok"}}
\* the map m differs from the cache that was read at refetched keys only
SameButRefetched(m) ==
  /\ DOMAIN cache0.map \subseteq DOMAIN m
  /\ \A k \in DOMAIN m :
       k \in RefetchedKeys \/ (k \in DOMAIN cache0.map /\ m[k] = cache0.map[k])

\* C29: a pass of fetchAllGitHubStats changes the cache only at the keys whose
\* request succeeded in the pass: in the in-memory cache and in every payload
\* it writes, every other entry that was read (a hit, an entry whose request
\* failed, an entry for a URL that is not in the list) is there with the same
\* stars, lastCommit and fetchedAt, and no key that was read is missing.
C29_OnlyRefetchedKeysChange ==
  FannedOut =>
    /\ cache.isNull = cache0.isNull
    /\ SameButRefetched(cache.map)
    /\ \A n \in 1..Len(written) :
         /\ written[n].isNull = cache0.isNull
         /\ SameButRefetched(JSONParse(written[n]).map)
C29_Witness ==
  /\ Returned /\ written # <<>>
  /\ blob = Some(written[Len(written)])
  /\ \E i, j \in 1..Len(tasks) :
       /\ outcomes[i] = "failed" /\ Cached0(tasks[i].url)
       /\ outcomes[j] = "hit"

(***************************************************************************)
(* fetchAllGitHubStats with GITHUB_TOKEN and without BLOB_READ_WRITE_TOKEN. *)
(***************************************************************************)
FetchOnly == RefreshAll /\ githubToken /\ blobToken = "absent"
\* the entries of the list whose github_url parses
Resolvable == {i \in 1..Len(tasks) : ~IsNull(parseGitHubUrl(tasks[i].url))}

\* C30: with GITHUB_TOKEN set and BLOB_READ_WRITE_TOKEN unset,
\* fetchAllGitHubStats makes no request to the blob store, reading or writing;
\* it requests GitHub for every entry whose github_url parses, none being
\* served from the cache; and it returns exactly the entries whose request
\* succeeded, with the values GitHub gave.
C30_FetchOnlyTier ==
  FetchOnly =>
    /\ RequestsOfKind("blobRead") = {} /\ RequestsOfKind("blobWrite") = {}
    /\ written = <<>> /\ readHow \in {"none", "skipped"}
    /\ pc # "start" =>
         /\ \A i \in Resolvable : outcomes[i] \in {"requested", "ok", "failed"}
         /\ \A i \in 1..Len(tasks) : outcomes[i] # "hit"
         /\ Cardinality(RequestsOfKind("github")) = Cardinality(Resolvable)
         /\ \A i \in Resolvable : GitHubRequestsFor(tasks[i].url) # {}
    /\ pc = "done" =>
         /\ ~thrown
         /\ DOMAIN Returns = RefetchedKeys
         /\ \A k \in DOMAIN Returns :
              /\ Returns[k].stars \in liveStars
              /\ Returns[k].lastCommit = LivePushedAt
C30_Witness ==
  /\ FetchOnly /\ pc = "done"
  /\ \E i, j \in 1..Len(tasks) : outcomes[i] = "ok" /\ outcomes[j] = "failed"
  /\ Cardinality(DOMAIN Returns) = 1

(***************************************************************************)
(* What a pass of fetchAllGitHubStats leaves in the blob store.            *)
(***************************************************************************)
\* C31 (as stated): a step of a pass of fetchAllGitHubStats never removes a
\* key from the object stored in the blob store, also when the read of the
\* cache at the start of the pass failed and the write succeeds.
C31_StoredKeysNeverLost ==
  [][RefreshAll => StoredKeys \subseteq StoredKeys']_vars
\* C31 (amended): a step of a pass whose read of the cache succeeded never
\* removes a key from the stored object; after a failed read the pass works
\* on an empty cache and its write stores the keys it refetched and no other.
C31_StoredKeysKeptAfterGoodRead ==
  [][RefreshAll =>
       /\ readHow = "ok" => StoredKeys \subseteq StoredKeys'
       /\ (readHow \in {"notok", "throw"} /\ blob' # blob) =>
            StoredKeys' = RefetchedKeys]_vars
C31_Witness ==
  /\ Returned /\ readHow = "ok" /\ written # <<>>
  /\ blob = Some(written[Len(written)])
  /\ \E k \in DOMAIN cache0.map :
       /\ k \notin RefetchedKeys
       /\ k \in StoredKeys
  /\ RefetchedKeys # {}

WithStatsFor(k) ==
  {i \in 1..Len(tasks) :
     tasks[i].url = k /\ tasks[i].status = "fulfilled" /\ ~IsNull(tasks[i].value)}
StatsOfTask(i) == Val(tasks[i].value).stats

StoredCache == JSONParse(Val(blob))

\* C34: fetchGitHubStatsForUrl does not look at fetchedAt: when the stored
\* cache it read holds the URL, it returns the stars and lastCommit of that
\* entry, whether the entry is fresh or older than the TTL.
C34_ReadSingleServesStale ==
  (ReadSingle /\ pc = "done" /\ readHow = "ok" /\ githubUrl \in StoredKeys) =>
    /\ result = Some(Some(PublicOf(StoredCache.map[githubUrl])))
    /\ RequestsOfKind("github") = {}
C34_Witness ==
  /\ ReadSingle /\ pc = "done" /\ readHow = "ok" /\ githubUrl \in StoredKeys
  /\ ~isFresh(StoredCache.map[githubUrl])
  /\ AgeAt(StoredCache.map[githubUrl], now) > CACHE_TTL_MS
  /\ Val(Val(result)).stars = StoredCache.map[githubUrl].stars

(***************************************************************************)
(* The order of the index.                                                 *)
(***************************************************************************)
\* a is b with some of its elements left out
RECURSIVE IsSubsequence(_, _)
IsSubsequence(a, b) ==
  IF a = <<>> THEN TRUE
  ELSE IF b = <<>> THEN FALSE
  ELSE IF Head(a) = Head(b) THEN IsSubsequence(Tail(a), Tail(b))
  ELSE IsSubsequence(a, Tail(b))
\* the items of the entries whose fetch was fulfilled, entry after entry in
\* list order, each entry's items in the order of its manifest
ItemsInListOrder ==
  ValuesInOrder([i \in 1..Len(registries) |-> ItemsOfEntry(i)], ListOrder)
Rejected == {i \in 1..Len(tasks) : tasks[i].status = "rejected"}

\* C35: the index fetchAllRegistryItems returns is a subsequence of the items
\* of the fulfilled entries taken in list order, and manifest order within an
\* entry, in whatever order the fetches settled; a rejected fetch adds no
\* item and every key of a fulfilled entry is still in the index.
C35_IndexInListOrder ==
  IndexReturned =>
    /\ IsSubsequence(Index, ItemsInListOrder)
    /\ \A i \in Rejected : ItemsOfEntry(i).status = "rejected"
    /\ \A i \in Fulfilled :
         /\ tasks[i].value = ItemsOfEntry(i).value
         /\ KeysOf(tasks[i].value) \subseteq KeysOf(Index)
    /\ KeysOf(Index) = UNION {KeysOf(tasks[i].value) : i \in Fulfilled}
C35_Witness ==
  /\ IndexReturned /\ settled = <<2, 1>> /\ Fulfilled = {1, 2}
  /\ tasks[1].value # <<>> /\ tasks[2].value # <<>>
  /\ Index[1] = tasks[1].value[1]
  /\ \E n \in 1..Len(Index) :
       ItemKey(Index[n]) \in KeysOf(tasks[2].value) \ KeysOf(tasks[1].value)

(***************************************************************************)
(* The two parsers compared.                                               *)
(***************************************************************************)
\* C36 (as stated): parseGitHubUrl and parseGitHubOwnerRepo agree on every
\* URL: what either returns for a URL is what the other returns for it, null
\* or the same owner and repo, also when the second path segment is ".git".
C36_ParsersAgree ==
  Parsed =>
    /\ result = Some(parseGitHubUrl(githubUrl))
    /\ result = Some(parseGitHubOwnerRepo(githubUrl))

====
